---------------------------- MODULE Spec2Model ----------------------------
(***************************************************************************)
(* Model of the dataset dashboard page (src/src/app/dashboard/[id]/page.tsx)*)
(* and of the typed filter engine it contains.                             *)
(*                                                                         *)
(* JavaScript strings are sequences of one-character strings, so that      *)
(* toLowerCase, includes, startsWith, endsWith, Number() and Date parsing  *)
(* are computed and not assumed.  A JavaScript value is a record           *)
(*   [t |-> tag, s |-> characters, n |-> integer]                          *)
(* with tag "string", "number", "NaN", "null" or "undefined".  Dataset     *)
(* rows arrive through response.json(), so a cell is a string, a number or *)
(* null; a column that a row does not have reads as undefined.             *)
(***************************************************************************)
EXTENDS Integers, Sequences, FiniteSets

VARIABLES
  dataset,              \* useState<Dataset | null>        page.tsx:62
  loading,              \* useState(true)                  page.tsx:63
  filters,              \* useState<Filter[]>([])          page.tsx:64
  rowsWithIds,          \* useMemo                         page.tsx:112
  filteredRowsWithIds,  \* useMemo                         page.tsx:134
  filteredData,         \* useMemo                         page.tsx:206
  kpiData,              \* useMemo                         page.tsx:211
  filteredRowIds,       \* useMemo                         page.tsx:219
  crashed,              \* a render of the page threw
  evalFilter,           \* the filter handed to the predicate callback
  evalRow,              \* the row handed to the predicate callback
  evalResult,           \* what the callback did: "pending", "true", "false", "TypeError"
  data,                 \* ChartContainer prop data        ChartContainer.tsx:159
  columns,              \* ChartContainer prop columns     ChartContainer.tsx:160
  groupByColumn,        \* React.useState<string>('')      ChartContainer.tsx:165
  valueColumn,          \* React.useState<string>('')      ChartContainer.tsx:166
  chartData,            \* useMemo                         ChartContainer.tsx:279
  timeSeriesData,       \* useMemo                         ChartContainer.tsx:284
  reportType,           \* React.useState<string>('custom') ChartContainer.tsx:167
  reportPresets,        \* useMemo                         ChartContainer.tsx:191
  timeZoneOffset,       \* days from UTC midnight to the local date of the browser: 0 or -1
  editingCell,          \* EditableTable useState: null or the row index being edited
  editShown,            \* the row id displayed at that index when startEdit was called
  deleteModal,          \* EditableTable useState<{ open, rowIndex }>
  deleteShown,          \* the row id displayed at that index when the dialog was opened
  lastRequest,          \* the last request for /api/rows/<rowId>, and the id it was meant for
  answers,              \* the responses to the dataset fetches, in the order of the requests
  inFlight,             \* the dataset fetches whose response has not arrived
  datasets,             \* list page useState<Dataset[]>([])   dashboard/page.tsx:43
  listLoading,          \* list page useState(true)            dashboard/page.tsx:44
  listDeleteModal,      \* list page useState<{ open, dataset }> dashboard/page.tsx:48
  listDeleting,         \* list page useState(false)           dashboard/page.tsx:52
  listDeleteRequest,    \* the DELETE request of the list page and its response
  serverDatasets        \* the datasets the server holds

vars == <<dataset, loading, filters, rowsWithIds, filteredRowsWithIds,
          filteredData, kpiData, filteredRowIds, crashed,
          evalFilter, evalRow, evalResult,
          data, columns, groupByColumn, valueColumn, chartData, timeSeriesData,
          reportType, reportPresets, timeZoneOffset,
          editingCell, editShown, deleteModal, deleteShown, lastRequest, answers, inFlight,
          datasets, listLoading, listDeleteModal, listDeleting, listDeleteRequest,
          serverDatasets>>

pageVars == <<dataset, loading, filters, rowsWithIds, filteredRowsWithIds,
              filteredData, kpiData, filteredRowIds, crashed>>

evalVars == <<evalFilter, evalRow, evalResult>>

chartVars == <<data, columns, groupByColumn, valueColumn, chartData, timeSeriesData,
               reportType, reportPresets, timeZoneOffset>>

tableVars == <<editingCell, editShown, deleteModal, deleteShown, lastRequest, answers,
               inFlight>>

listVars == <<datasets, listLoading, listDeleteModal, listDeleting, listDeleteRequest,
              serverDatasets>>

-----------------------------------------------------------------------------
(* Bounds of the model *)

MaxRows == 2

MaxFilters == 2

MaxChartRows == 3

-----------------------------------------------------------------------------
(* JavaScript values *)

Null == [t |-> "null", s |-> <<>>, n |-> 0]

Undefined == [t |-> "undefined", s |-> <<>>, n |-> 0]

NaN == [t |-> "NaN", s |-> <<>>, n |-> 0]

Str(chars) == [t |-> "string", s |-> chars, n |-> 0]

Num(k) == [t |-> "number", s |-> <<>>, n |-> k]

UpperCaseLetters ==
  <<"A","B","C","D","E","F","G","H","I","J","K","L","M",
    "N","O","P","Q","R","S","T","U","V","W","X","Y","Z">>

LowerCaseLetters ==
  <<"a","b","c","d","e","f","g","h","i","j","k","l","m",
    "n","o","p","q","r","s","t","u","v","w","x","y","z">>

DecimalDigits == <<"0","1","2","3","4","5","6","7","8","9">>

IsDigit(c) == \E i \in 1..10 : DecimalDigits[i] = c

DigitValue(c) == (CHOOSE i \in 1..10 : DecimalDigits[i] = c) - 1

\* String.prototype.toLowerCase, one character
LowerChar(c) ==
  IF \E i \in 1..26 : UpperCaseLetters[i] = c
    THEN LowerCaseLetters[CHOOSE i \in 1..26 : UpperCaseLetters[i] = c]
    ELSE c

\* String.prototype.toLowerCase
toLowerCase(str) == [i \in 1..Len(str) |-> LowerChar(str[i])]

\* String.prototype.startsWith
startsWith(str, search) ==
  /\ Len(search) <= Len(str)
  /\ SubSeq(str, 1, Len(search)) = search

\* String.prototype.endsWith
endsWith(str, search) ==
  /\ Len(search) <= Len(str)
  /\ SubSeq(str, Len(str) - Len(search) + 1, Len(str)) = search

\* String.prototype.includes
includes(str, search) ==
  \E i \in 0..(Len(str) - Len(search)) : SubSeq(str, i + 1, i + Len(search)) = search

\* The decimal digits of a natural number
RECURSIVE NatToString(_)
NatToString(k) ==
  IF k < 10 THEN <<DecimalDigits[k + 1]>>
  ELSE Append(NatToString(k \div 10), DecimalDigits[(k % 10) + 1])

\* String(value)
String(value) ==
  CASE value.t = "string"    -> value.s
    [] value.t = "number"    -> IF value.n < 0 THEN <<"-">> \o NatToString(-value.n)
                                ELSE NatToString(value.n)
    [] value.t = "NaN"       -> <<"N","a","N">>
    [] value.t = "null"      -> <<"n","u","l","l">>
    [] value.t = "undefined" -> <<"u","n","d","e","f","i","n","e","d">>

\* value ?? ''
NullishToEmpty(value) ==
  IF value.t \in {"null", "undefined"} THEN Str(<<>>) ELSE value

\* Truthiness of a value in a conditional (filter.valueTo ? ... , filter.from ? ...)
Truthy(value) ==
  CASE value.t = "string" -> Len(value.s) > 0
    [] value.t = "number" -> value.n # 0
    [] OTHER              -> FALSE

\* StringToNumber: white space trimmed
RECURSIVE Trim(_)
Trim(str) ==
  IF str = <<>> THEN str
  ELSE IF Head(str) = " " THEN Trim(Tail(str))
  ELSE IF str[Len(str)] = " " THEN Trim(SubSeq(str, 1, Len(str) - 1))
  ELSE str

RECURSIVE DigitsToNat(_)
DigitsToNat(str) ==
  IF str = <<>> THEN 0
  ELSE 10 * DigitsToNat(SubSeq(str, 1, Len(str) - 1)) + DigitValue(str[Len(str)])

AllDigits(str) == Len(str) > 0 /\ \A i \in 1..Len(str) : IsDigit(str[i])

\* Number(string): "" and blanks are 0, a signed decimal integer is its value,
\* anything else is NaN
StringToNumber(str) ==
  LET trimmed == Trim(str) IN
  IF trimmed = <<>> THEN Num(0)
  ELSE IF AllDigits(trimmed) THEN Num(DigitsToNat(trimmed))
  ELSE IF Head(trimmed) \in {"-", "+"} /\ AllDigits(Tail(trimmed))
    THEN Num((IF Head(trimmed) = "-" THEN -1 ELSE 1) * DigitsToNat(Tail(trimmed)))
  ELSE NaN

\* Number(value)
Number(value) ==
  CASE value.t = "number"    -> value
    [] value.t = "NaN"       -> NaN
    [] value.t = "null"      -> Num(0)
    [] value.t = "undefined" -> NaN
    [] value.t = "string"    -> StringToNumber(value.s)

\* Object.is in place of ===: NaN is the same value as NaN
NumEqSameValue(a, b) == a.t = b.t /\ a.n = b.n

\* Relational operators on numbers: every comparison with NaN is false
NumEq(a, b) == a.t = "number" /\ b.t = "number" /\ a.n = b.n

NumGt(a, b) == a.t = "number" /\ b.t = "number" /\ a.n > b.n

NumLt(a, b) == a.t = "number" /\ b.t = "number" /\ a.n < b.n

NumGe(a, b) == a.t = "number" /\ b.t = "number" /\ a.n >= b.n

NumLe(a, b) == a.t = "number" /\ b.t = "number" /\ a.n <= b.n

\* Days from 1970-01-01 of a civil date (proleptic Gregorian calendar)
DaysFromCivil(year, month, day) ==
  LET y   == IF month <= 2 THEN year - 1 ELSE year
      era == y \div 400
      yoe == y - era * 400
      mp  == IF month > 2 THEN month - 3 ELSE month + 9
      doy == (153 * mp + 2) \div 5 + day - 1
      doe == yoe * 365 + yoe \div 4 - yoe \div 100 + doy
  IN era * 146097 + doe - 719468

DaysInMonth(year, month) ==
  IF month = 2
    THEN IF (year % 4 = 0 /\ year % 100 # 0) \/ year % 400 = 0 THEN 29 ELSE 28
  ELSE IF month \in {4, 6, 9, 11} THEN 30 ELSE 31

\* The date-only ISO form YYYY-MM-DD
IsIsoDate(str) ==
  /\ Len(str) = 10
  /\ str[5] = "-" /\ str[8] = "-"
  /\ \A i \in {1, 2, 3, 4, 6, 7, 9, 10} : IsDigit(str[i])

\* new Date(string): the time value in days (a date-only form is UTC midnight),
\* NaN for an invalid date.  Only the date-only ISO form and strings without any
\* digit are given to it here: other forms are implementation-defined.
DateFromString(str) ==
  IF IsIsoDate(str)
    THEN LET year  == DigitsToNat(SubSeq(str, 1, 4))
             month == DigitsToNat(SubSeq(str, 6, 7))
             day   == DigitsToNat(SubSeq(str, 9, 10))
         IN IF month \in 1..12 /\ day \in 1..DaysInMonth(year, month)
              THEN Num(DaysFromCivil(year, month, day))
              ELSE NaN
    ELSE NaN

-----------------------------------------------------------------------------
(* The predicate of one filter on one row: the callback of activeFilters.every *)

\* row[filter.columnName]: a property the row does not have reads as undefined
Cell(row, columnName) ==
  IF columnName \in DOMAIN row THEN row[columnName] ELSE Undefined

Bool(b) == IF b THEN "true" ELSE "false"

\* The text case without toLowerCase on the cell
TextPredicateCaseSensitive(filter, value) ==
  LET textValue == String(NullishToEmpty(value)) IN
  IF filter.value.t # "string" THEN "TypeError"
  ELSE
    LET filterValue == toLowerCase(filter.value.s) IN
    CASE filter.operator = "equals"     -> Bool(textValue = filterValue)
      [] filter.operator = "contains"   -> Bool(includes(textValue, filterValue))
      [] filter.operator = "startsWith" -> Bool(startsWith(textValue, filterValue))
      [] filter.operator = "endsWith"   -> Bool(endsWith(textValue, filterValue))
      [] OTHER                          -> "true"

\* case 'text'
TextPredicate(filter, value) ==
  LET textValue == toLowerCase(String(NullishToEmpty(value))) IN
  IF filter.value.t # "string" THEN "TypeError"   \* filter.value.toLowerCase()
  ELSE
    LET filterValue == toLowerCase(filter.value.s) IN
    CASE filter.operator = "equals"     -> Bool(textValue = filterValue)
      [] filter.operator = "contains"   -> Bool(includes(textValue, filterValue))
      [] filter.operator = "startsWith" -> Bool(startsWith(textValue, filterValue))
      [] filter.operator = "endsWith"   -> Bool(endsWith(textValue, filterValue))
      [] OTHER                          -> "true"

\* The number case with numValue < filterMax as the upper side of between
NumberPredicateExclusive(filter, value) ==
  LET numValue  == Number(value)
      filterNum == Number(filter.value)
      filterMax == IF Truthy(filter.valueTo) THEN Number(filter.valueTo) ELSE filterNum
  IN
  CASE filter.operator = "equals"      -> Bool(NumEq(numValue, filterNum))
    [] filter.operator = "greaterThan" -> Bool(NumGt(numValue, filterNum))
    [] filter.operator = "lessThan"    -> Bool(NumLt(numValue, filterNum))
    [] filter.operator = "between"     ->
         Bool(NumGe(numValue, filterNum) /\ NumLt(numValue, filterMax))
    [] OTHER                           -> "true"

\* The number case with a cell that does not parse passed through
NumberPredicatePermissive(filter, value) ==
  LET numValue  == Number(value)
      filterNum == Number(filter.value)
      filterMax == IF Truthy(filter.valueTo) THEN Number(filter.valueTo) ELSE filterNum
  IN
  IF numValue = NaN THEN "true"
  ELSE
    CASE filter.operator = "equals"      -> Bool(NumEq(numValue, filterNum))
      [] filter.operator = "greaterThan" -> Bool(NumGt(numValue, filterNum))
      [] filter.operator = "lessThan"    -> Bool(NumLt(numValue, filterNum))
      [] filter.operator = "between"     ->
           Bool(NumGe(numValue, filterNum) /\ NumLe(numValue, filterMax))
      [] OTHER                           -> "true"

\* case 'number'
NumberPredicate(filter, value) ==
  LET numValue  == Number(value)
      filterNum == Number(filter.value)
      filterMax == IF Truthy(filter.valueTo) THEN Number(filter.valueTo) ELSE filterNum
  IN
  CASE filter.operator = "equals"      -> Bool(NumEq(numValue, filterNum))
    [] filter.operator = "greaterThan" -> Bool(NumGt(numValue, filterNum))
    [] filter.operator = "lessThan"    -> Bool(NumLt(numValue, filterNum))
    [] filter.operator = "between"     ->
         Bool(NumGe(numValue, filterNum) /\ NumLe(numValue, filterMax))
    [] OTHER                           -> "true"

\* The date case with > and < in place of >= and <=
DatePredicateExclusive(filter, value) ==
  LET dateValue == DateFromString(String(value))
      fromDate  == IF Truthy(filter.from) THEN DateFromString(filter.from.s) ELSE Null
      toDate    == IF Truthy(filter.to) THEN DateFromString(filter.to.s) ELSE Null
  IN
  IF filter.operator = "dateRange" /\ fromDate # Null /\ toDate # Null
    THEN Bool(NumGt(dateValue, fromDate) /\ NumLt(dateValue, toDate))
  ELSE IF filter.operator = "dateRange" /\ fromDate # Null
    THEN Bool(NumGt(dateValue, fromDate))
  ELSE IF filter.operator = "dateRange" /\ toDate # Null
    THEN Bool(NumLt(dateValue, toDate))
  ELSE "true"

\* case 'date': no cell is a Date instance, so dateValue is new Date(String(value));
\* from and to are strings when present
DatePredicate(filter, value) ==
  LET dateValue == DateFromString(String(value))
      fromDate  == IF Truthy(filter.from) THEN DateFromString(filter.from.s) ELSE Null
      toDate    == IF Truthy(filter.to) THEN DateFromString(filter.to.s) ELSE Null
  IN
  IF filter.operator = "dateRange" /\ fromDate # Null /\ toDate # Null
    THEN Bool(NumGe(dateValue, fromDate) /\ NumLe(dateValue, toDate))
  ELSE IF filter.operator = "dateRange" /\ fromDate # Null
    THEN Bool(NumGe(dateValue, fromDate))
  ELSE IF filter.operator = "dateRange" /\ toDate # Null
    THEN Bool(NumLe(dateValue, toDate))
  ELSE "true"

\* The category case without the early return for an empty list
CategoryPredicateStrict(filter, value) ==
  IF filter.values.t = "number" /\ filter.values.n # 0 THEN "TypeError"
  ELSE
    LET selectedValues == IF filter.values.t = "array" THEN filter.values.items ELSE <<>> IN
    Bool(\E i \in 1..Len(selectedValues) : selectedValues[i] = String(value))

\* case 'category': filter.values is undefined, an array of strings, or (malformed)
\* a number, which has neither length nor includes
CategoryPredicate(filter, value) ==
  IF filter.values.t = "number" /\ filter.values.n # 0 THEN "TypeError"
  ELSE
    LET selectedValues == IF filter.values.t = "array" THEN filter.values.items ELSE <<>> IN
    IF Len(selectedValues) = 0 THEN "true"
    ELSE Bool(\E i \in 1..Len(selectedValues) : selectedValues[i] = String(value))

\* filter => { const value = row[filter.columnName]; switch (filter.columnType) ... }
FilterCallback(filter, row) ==
  LET value == Cell(row, filter.columnName) IN
  CASE filter.columnType = "text"     -> TextPredicate(filter, value)
    [] filter.columnType = "number"   -> NumberPredicate(filter, value)
    [] filter.columnType = "date"     -> DatePredicate(filter, value)
    [] filter.columnType = "category" -> CategoryPredicate(filter, value)
    [] OTHER                          -> "true"

\* activeFilters.every(callback): stops at the first filter that does not return
\* true; an exception of the callback propagates
RECURSIVE Every(_, _)
Every(activeFilters, row) ==
  IF activeFilters = <<>> THEN "true"
  ELSE LET outcome == FilterCallback(Head(activeFilters), row) IN
       IF outcome = "true" THEN Every(Tail(activeFilters), row) ELSE outcome

\* Array.prototype.some in place of every: a filter list that is OR-ed
Some(activeFilters, row) ==
  IF \E i \in 1..Len(activeFilters) : FilterCallback(activeFilters[i], row) = "true"
    THEN "true" ELSE "false"

\* The callback of rowsWithIds.filter: ({ data: row }) => activeFilters.every(...)
RowPasses(activeFilters, row) == Every(activeFilters, row)

IsActive(f) == f.isActive

\* Every filter taken as active
AllFilters(filterList) == filterList

\* const activeFilters = filters.filter(f => f.isActive)
ActiveFilters(filterList) == SelectSeq(filterList, IsActive)

\* The guard taken for one row as well
NoRowsOrOne(rows) == Len(rows) <= 1

\* !rowsWithIds.length
NoRows(rows) == Len(rows) = 0

\* The body of the filteredRowsWithIds memo: [err, rows], err when it throws
FilterRows(rows, filterList) ==
  IF NoRows(rows) THEN [err |-> FALSE, rows |-> <<>>]
  ELSE
    LET activeFilters == ActiveFilters(filterList) IN
    IF Len(activeFilters) = 0 THEN [err |-> FALSE, rows |-> rows]
    ELSE IF \E i \in 1..Len(rows) : RowPasses(activeFilters, rows[i].data) = "TypeError"
      THEN [err |-> TRUE, rows |-> <<>>]
      ELSE [err |-> FALSE,
            rows |-> SelectSeq(rows, LAMBDA r : RowPasses(activeFilters, r.data) = "true")]

-----------------------------------------------------------------------------
(* The datasets and filters the page is driven with *)

East == <<"E","a","s","t">>

West == <<"W","e","s","t">>

Jan05 == <<"2","0","2","4","-","0","1","-","0","5">>

Jan01 == <<"2","0","2","4","-","0","1","-","0","1">>

Dec31 == <<"2","0","2","3","-","1","2","-","3","1">>

\* DataRow (page.tsx:40-45) as the server returns it.  Rows a1 and d4 hold equal
\* data under different ids; row c3 has missing (null) cells.
RowPool ==
  { [id |-> "a1", rowIndex |-> 0,
     data |-> [region |-> Str(East), sales |-> Num(10), day |-> Str(Jan05), tier |-> Str(<<"A">>)]],
    [id |-> "b2", rowIndex |-> 1,
     data |-> [region |-> Str(West), sales |-> Num(5), day |-> Str(Dec31), tier |-> Str(<<"B">>)]],
    [id |-> "c3", rowIndex |-> 2,
     data |-> [region |-> Str(toLowerCase(East)), sales |-> Num(3), day |-> Null, tier |-> Null]],
    [id |-> "d4", rowIndex |-> 3,
     data |-> [region |-> Str(East), sales |-> Num(10), day |-> Str(Jan05), tier |-> Str(<<"A">>)]] }

\* Sequences of at most n distinct elements of S
DistinctSeqs(S, n) ==
  { q \in UNION { [1..k -> S] : k \in 0..n } :
      \A i, j \in 1..Len(q) : i # j => q[i] # q[j] }

\* The permutations of a sequence
Reorderings(q) ==
  { [i \in 1..Len(q) |-> q[pi[i]]] :
      pi \in { f \in [1..Len(q) -> 1..Len(q)] : \A i, j \in 1..Len(q) : i # j => f[i] # f[j] } }

\* result.dataset of a successful fetch: row ids are keys, so distinct
DatasetPool == { [loaded |-> TRUE, rows |-> q] : q \in DistinctSeqs(RowPool, MaxRows) }

\* useState<Dataset | null>(null)
NoDataset == [loaded |-> FALSE, rows |-> <<>>]

NoValues == [t |-> "undefined", items |-> <<>>, n |-> 0]

Values(items) == [t |-> "array", items |-> items, n |-> 0]

\* A Filter with every optional field absent
BlankFilter(id, columnName, columnType, operator) ==
  [id |-> id, columnName |-> columnName, columnType |-> columnType,
   operator |-> operator, isActive |-> TRUE,
   value |-> Undefined, valueTo |-> Undefined, values |-> NoValues,
   from |-> Undefined, to |-> Undefined]

\* The filters FilterPanel hands to onAddFilter.  The last one is a text filter
\* whose value is absent.
FilterPool ==
  { [BlankFilter(1, "region", "text", "equals") EXCEPT !.value = Str(toLowerCase(East))],
    [BlankFilter(2, "sales", "number", "between")
       EXCEPT !.value = Str(<<"4">>), !.valueTo = Str(<<"1","2">>)],
    [BlankFilter(3, "day", "date", "dateRange") EXCEPT !.from = Str(Jan01)],
    [BlankFilter(4, "tier", "category", "in") EXCEPT !.values = Values(<<<<"A">>>>)],
    BlankFilter(5, "region", "text", "contains") }

\* The updates FilterPanel hands to onUpdateFilter: the fields to overwrite
UpdatePool ==
  { [isActive |-> FALSE], [isActive |-> TRUE] }

\* { ...f, ...updates }
Spread(f, updates) ==
  [k \in DOMAIN f |-> IF k \in DOMAIN updates THEN updates[k] ELSE f[k]]

-----------------------------------------------------------------------------
(* The memos of the page, each recomputed by a render when one of the values in
   its dependency list was set or recomputed *)

\* rowsWithIds (page.tsx:112-118)
RowsWithIdsMemo(ds) ==
  IF ~ds.loaded THEN <<>>
  ELSE [i \in 1..Len(ds.rows) |-> [id |-> ds.rows[i].id, data |-> ds.rows[i].data]]

\* filteredData (page.tsx:206-208)
FilteredDataMemo(filtered) == [i \in 1..Len(filtered) |-> filtered[i].data]

\* The ids taken by position from the unfiltered rows
RowIdsByPosition(filtered) ==
  [i \in 1..Len(filtered) |->
     IF i <= Len(rowsWithIds) THEN rowsWithIds[i].id ELSE filtered[i].id]

\* filteredRowIds (page.tsx:219-221)
FilteredRowIdsMemo(filtered) == [i \in 1..Len(filtered) |-> filtered[i].id]

\* The numeric coercion of a cell, 0 when it does not parse (design section 4.3)
NumericOrZero(value) ==
  LET parsed == Number(value) IN IF parsed.t = "number" THEN parsed.n ELSE 0

NoColumn == [name |-> "", type |-> "undefined"]

\* The characters of the column names of the datasets
NameChars(name) ==
  CASE name = "tier" -> <<"t","i","e","r">>
    [] name = "region" -> <<"r","e","g","i","o","n">>
    [] name = "sales" -> <<"s","a","l","e","s">>
    [] name = "units" -> <<"u","n","i","t","s">>
    [] name = "day" -> <<"d","a","y">>
    [] name = "client_type" -> <<"c","l","i","e","n","t","_","t","y","p","e">>
    [] name = "item" -> <<"i","t","e","m">>
    [] name = "total_qty" -> <<"t","o","t","a","l","_","q","t","y">>
    [] name = "amount" -> <<"a","m","o","u","n","t">>
    [] name = "Qty" -> <<"Q","t","y">>
    [] name = "ITEM" -> <<"I","T","E","M">>
    [] name = "Item" -> <<"I","t","e","m">>
    [] name = "Sales" -> <<"S","a","l","e","s">>
    [] OTHER -> <<>>

\* c.name.includes(hint), the name not lower-cased
HasHintCaseSensitive(column, hints) ==
  \E hint \in hints : includes(NameChars(column.name), hint)

\* c.name.toLowerCase().includes(hint) for one of the hints
HasHint(column, hints) ==
  LET lower == toLowerCase(NameChars(column.name)) IN
    \E hint \in hints : includes(lower, hint)

\* The first column, in declared order, of those at the positions found
FirstColumn(cols, found) ==
  IF found = {} THEN NoColumn
  ELSE cols[CHOOSE i \in found : \A j \in found : i <= j]

\* The hint sets of the KPI detector (design section 4.4)
MonetaryHints ==
  { <<"p","r","i","c","e">>, <<"a","m","o","u","n","t">>, <<"t","o","t","a","l">>, <<"r","e","v","e","n","u","e">>, <<"s","a","l","e","s">>, <<"c","o","s","t">>, <<"v","a","l","u","e">>, <<"p","a","y","m","e","n","t">>, <<"f","e","e">> }

CountHints == { <<"q","u","a","n","t","i","t","y">>, <<"q","t","y">> }

CategoricalHints ==
  { <<"c","u","s","t","o","m","e","r">>, <<"c","l","i","e","n","t">>, <<"p","r","o","d","u","c","t">>, <<"i","t","e","m">>, <<"c","a","t","e","g","o","r","y">>, <<"t","y","p","e">> }

\* detectKpiColumns(columns) of @/lib/kpi-calculator as design section 4.4
\* describes it: each role goes to the first column, in declared order, whose
\* name matches the hint set of the role and that holds no role yet
DetectKpiColumns(cols) ==
  LET positions == 1..Len(cols)
      revenue  == FirstColumn(cols, { i \in positions : HasHint(cols[i], MonetaryHints) })
      quantity == FirstColumn(cols, { i \in positions :
                    cols[i] # revenue /\ HasHint(cols[i], CountHints) })
      category == FirstColumn(cols, { i \in positions :
                    /\ cols[i] # revenue
                    /\ cols[i] # quantity
                    /\ HasHint(cols[i], CategoricalHints) })
      date     == FirstColumn(cols, { i \in positions : cols[i].type = "date" })
  IN  [revenue |-> revenue, quantity |-> quantity, category |-> category, date |-> date]

\* The total of a column over the rows, a cell that is no number counting as 0
RECURSIVE TotalOfColumn(_, _)
TotalOfColumn(rows, columnName) ==
  IF rows = <<>> THEN 0
  ELSE NumericOrZero(Cell(rows[1], columnName)) + TotalOfColumn(Tail(rows), columnName)

\* The days of the cells of a column that are dates
DaysOfColumn(rows, columnName) ==
  { DateFromString(String(Cell(rows[i], columnName))).n :
      i \in { j \in 1..Len(rows) :
               /\ Cell(rows[j], columnName).t = "string"
               /\ DateFromString(Cell(rows[j], columnName).s).t = "number" } }

\* calculateKpis(rows, kpiColumns) of @/lib/kpi-calculator as design section 4.4
\* describes it: a role that is absent, or a date role without a date in the
\* rows, gives an absent value; a column that is missing or null gives 0
CalculateKpis(rows, kpiColumns) ==
  LET days == DaysOfColumn(rows, kpiColumns.date.name) IN
  [totalRevenue |->
     IF kpiColumns.revenue = NoColumn THEN Undefined
     ELSE Num(TotalOfColumn(rows, kpiColumns.revenue.name)),
   totalQuantity |->
     IF kpiColumns.quantity = NoColumn THEN Undefined
     ELSE Num(TotalOfColumn(rows, kpiColumns.quantity.name)),
   averageQuantity |->
     IF kpiColumns.quantity = NoColumn THEN Undefined
     ELSE IF Len(rows) = 0 THEN Num(0)
     ELSE Num(TotalOfColumn(rows, kpiColumns.quantity.name) \div Len(rows)),
   categoryCount |->
     IF kpiColumns.category = NoColumn THEN Undefined
     ELSE Num(Cardinality({ Cell(rows[i], kpiColumns.category.name) : i \in 1..Len(rows) }
                            \ {Null, Undefined})),
   earliest |->
     IF kpiColumns.date = NoColumn \/ days = {} THEN Undefined
     ELSE Num(CHOOSE d \in days : \A e \in days : d <= e),
   latest |->
     IF kpiColumns.date = NoColumn \/ days = {} THEN Undefined
     ELSE Num(CHOOSE d \in days : \A e \in days : d >= e)]

NoSummary ==
  [totalRevenue |-> Undefined, totalQuantity |-> Undefined, averageQuantity |-> Undefined,
   categoryCount |-> Undefined, earliest |-> Undefined, latest |-> Undefined]

NoKpi == [calculated |-> FALSE, rows |-> <<>>, summary |-> NoSummary]

\* calculateKpis called whatever the number of rows
KpiDataMemoUnguarded(ds, shown) ==
  IF ~ds.loaded THEN NoKpi
  ELSE [calculated |-> TRUE, rows |-> shown,
        summary |-> CalculateKpis(shown, DetectKpiColumns(columns))]

\* kpiData (page.tsx:211-216): null, or calculateKpis applied to filteredData and
\* to detectKpiColumns(csvData.columns)
KpiDataMemo(ds, shown) ==
  IF ~ds.loaded \/ Len(shown) = 0 THEN NoKpi
  ELSE [calculated |-> TRUE, rows |-> shown,
        summary |-> CalculateKpis(shown, DetectKpiColumns(columns))]

\* [dataset]
RowsWithIdsDeps(datasetSet, filtersSet) == datasetSet

\* [rowsWithIds] alone: filters left out of the dependency list
FilteredRowsDepsWithoutFilters(datasetSet, filtersSet) ==
  RowsWithIdsDeps(datasetSet, filtersSet)

\* [rowsWithIds, filters]
FilteredRowsDeps(datasetSet, filtersSet) ==
  RowsWithIdsDeps(datasetSet, filtersSet) \/ filtersSet

\* A filter that removes the rejected rows from the array it is given
RowsAfterFilterInPlace(rows, filterList) == FilterRows(rows, filterList).rows

\* The array rowsWithIds after the filteredRowsWithIds memo ran on it: length,
\* filter and every only read it and filter returns a new array (page.tsx:135-140)
RowsAfterFilter(rows, filterList) == rows

\* One render of DatasetDashboardPage after the state was set to (ds, fs).  A
\* memo that throws aborts the render: nothing of it is kept and the page is gone.
\* (Each memo is bound once, \E x \in {e}, and used under that name.)
Render(ds, fs, datasetSet, filtersSet) ==
  \E again \in {FilteredRowsDeps(datasetSet, filtersSet)} :
  \E rows \in {IF RowsWithIdsDeps(datasetSet, filtersSet)
                 THEN RowsWithIdsMemo(ds) ELSE rowsWithIds} :
  \E outcome \in {IF again THEN FilterRows(rows, fs)
                  ELSE [err |-> FALSE, rows |-> filteredRowsWithIds]} :
  \E shown \in {IF again THEN FilteredDataMemo(outcome.rows) ELSE filteredData} :
    IF outcome.err
      THEN /\ crashed' = TRUE
           /\ UNCHANGED <<rowsWithIds, filteredRowsWithIds, filteredData,
                          kpiData, filteredRowIds>>
      ELSE /\ crashed' = FALSE
           /\ rowsWithIds' = IF again THEN RowsAfterFilter(rows, fs) ELSE rows
           /\ filteredRowsWithIds' = outcome.rows
           /\ filteredData' = shown
           /\ kpiData' = IF datasetSet \/ again THEN KpiDataMemo(ds, shown) ELSE kpiData
           /\ filteredRowIds' =
                IF again THEN FilteredRowIdsMemo(outcome.rows) ELSE filteredRowIds

\* The page shows the filter panel, the charts and the table (page.tsx:303-320)
PageShown == dataset.loaded /\ ~loading /\ ~crashed

-----------------------------------------------------------------------------
(* The handlers of the page *)

\* fetchDataset, the response is a success (page.tsx:73-91)
FetchDataset(ds) ==
  /\ loading /\ ~crashed
  /\ dataset' = ds
  /\ loading' = FALSE
  /\ UNCHANGED filters
  /\ Render(ds, filters, TRUE, FALSE)

\* fetchDataset, the response is a failure or the request throws
FetchDatasetFailed ==
  /\ loading /\ ~crashed
  /\ loading' = FALSE
  /\ UNCHANGED <<dataset, filters>>
  /\ Render(dataset, filters, FALSE, FALSE)

\* refreshData, the response is a success (page.tsx:99-109)
RefreshData(ds) ==
  /\ PageShown
  /\ dataset' = ds
  /\ UNCHANGED <<loading, filters>>
  /\ Render(ds, filters, TRUE, FALSE)

SetFilters(fs) ==
  /\ filters' = fs
  /\ UNCHANGED <<dataset, loading>>
  /\ Render(dataset, fs, FALSE, TRUE)

FilterIds(fs) == { fs[i].id : i \in 1..Len(fs) }

\* onAddFilter (page.tsx:399)
AddFilter(filter) ==
  /\ PageShown
  /\ Len(filters) < MaxFilters
  /\ filter.id \notin FilterIds(filters)
  /\ SetFilters(Append(filters, filter))

\* filters.map(f => ({ ...f, ...updates })), the id not compared
UpdateFilterAll(id, updates) ==
  /\ PageShown
  /\ id \in FilterIds(filters)
  /\ SetFilters([i \in 1..Len(filters) |-> Spread(filters[i], updates)])

\* onUpdateFilter (page.tsx:400-404)
UpdateFilter(id, updates) ==
  /\ PageShown
  /\ id \in FilterIds(filters)
  /\ SetFilters([i \in 1..Len(filters) |->
                   IF filters[i].id = id THEN Spread(filters[i], updates) ELSE filters[i]])

\* onRemoveFilter (page.tsx:405)
RemoveFilter(id) ==
  /\ PageShown
  /\ id \in FilterIds(filters)
  /\ SetFilters(SelectSeq(filters, LAMBDA f : f.id # id))

\* onClearAll (page.tsx:406)
ClearAll ==
  /\ PageShown
  /\ SetFilters(<<>>)

\* The page without a ChartContainer
ChartNotMounted ==
  /\ data = <<>>
  /\ columns = <<>>
  /\ groupByColumn = ""
  /\ valueColumn = ""
  /\ chartData = <<>>
  /\ timeSeriesData = <<>>
  /\ reportType = "custom"
  /\ reportPresets = << [value |-> "custom", groupBy |-> "", valueCol |-> ""] >>
  /\ timeZoneOffset = 0

NoRequest == [method |-> "none", rowId |-> "", shown |-> ""]

\* The page without an EditableTable, no fetch of the dataset followed
TableNotMounted ==
  /\ editingCell = Null
  /\ editShown = ""
  /\ deleteModal = [open |-> FALSE, rowIndex |-> Null]
  /\ deleteShown = ""
  /\ lastRequest = NoRequest
  /\ answers = <<>>
  /\ inFlight = {}

NoListRequest == [id |-> "", response |-> "none"]

\* The dataset list page (src/src/app/dashboard/page.tsx) is not the page shown
ListNotMounted ==
  /\ datasets = <<>>
  /\ listLoading = TRUE
  /\ listDeleteModal = [open |-> FALSE, dataset |-> ""]
  /\ listDeleting = FALSE
  /\ listDeleteRequest = NoListRequest
  /\ serverDatasets = <<>>

Init ==
  /\ dataset = NoDataset
  /\ loading = TRUE
  /\ filters = <<>>
  /\ rowsWithIds = <<>>
  /\ filteredRowsWithIds = <<>>
  /\ filteredData = <<>>
  /\ kpiData = NoKpi
  /\ filteredRowIds = <<>>
  /\ crashed = FALSE
  /\ evalFilter = BlankFilter(0, "region", "text", "equals")
  /\ evalRow = [region |-> Null]
  /\ evalResult = "pending"
  /\ ChartNotMounted
  /\ TableNotMounted
  /\ ListNotMounted

Next ==
  \/ \E ds \in DatasetPool : FetchDataset(ds) /\ UNCHANGED <<evalVars, chartVars, tableVars, listVars>>
  \/ FetchDatasetFailed /\ UNCHANGED <<evalVars, chartVars, tableVars, listVars>>
  \/ \E ds \in DatasetPool : RefreshData(ds) /\ UNCHANGED <<evalVars, chartVars, tableVars, listVars>>
  \/ \E filter \in FilterPool : AddFilter(filter) /\ UNCHANGED <<evalVars, chartVars, tableVars, listVars>>
  \/ \E id \in 1..5, updates \in UpdatePool : UpdateFilter(id, updates) /\ UNCHANGED <<evalVars, chartVars, tableVars, listVars>>
  \/ \E id \in 1..5 : RemoveFilter(id) /\ UNCHANGED <<evalVars, chartVars, tableVars, listVars>>
  \/ ClearAll /\ UNCHANGED <<evalVars, chartVars, tableVars, listVars>>

Spec == Init /\ [][Next]_vars

-----------------------------------------------------------------------------
(* The predicate callback on its own: one filter, one row, one evaluation *)

\* Columns "region", "sales", "day" and "tier" exist in every row; "regoin" in none
TextFilters ==
  { [BlankFilter(0, columnName, "text", operator) EXCEPT !.value = value] :
      columnName \in {"region", "regoin"},
      operator \in {"equals", "contains", "startsWith", "endsWith", "matches"},
      value \in {Str(toLowerCase(East)), Str(<<"E">>), Str(<<"s","t">>), Str(<<>>),
                 Undefined, Num(5)} }

NumberFilters ==
  { [BlankFilter(0, columnName, "number", operator)
       EXCEPT !.value = value, !.valueTo = valueTo] :
      columnName \in {"sales", "regoin"},
      operator \in {"equals", "greaterThan", "lessThan", "between", "notEquals"},
      value \in {Str(<<"4">>), Str(<<"1","0">>), Str(<<"a","b","c">>), Undefined},
      valueTo \in {Undefined, Str(<<>>), Str(<<"1","0">>), Str(<<"1","2">>), Str(<<"x">>)} }

DateFilters ==
  { [BlankFilter(0, columnName, "date", operator) EXCEPT !.from = from, !.to = to] :
      columnName \in {"day", "regoin"},
      operator \in {"dateRange", "before"},
      from \in {Undefined, Str(Jan01), Str(<<>>)},
      to \in {Undefined, Str(Jan05), Str(<<"s","o","o","n">>)} }

CategoryFilters ==
  { [BlankFilter(0, columnName, "category", operator) EXCEPT !.values = values] :
      columnName \in {"tier", "regoin"},
      operator \in {"in", "equals"},
      values \in {NoValues, Values(<<>>), Values(<<<<"A">>>>), Values(<<<<"A">>, <<"B">>>>),
                  Values(<<<<"n","u","l","l">>>>),
                  [t |-> "number", items |-> <<>>, n |-> 5]} }

OtherTypeFilters ==
  { [BlankFilter(0, "region", "boolean", "equals") EXCEPT !.value = Str(East)] }

PredFilters ==
  TextFilters \cup NumberFilters \cup DateFilters \cup CategoryFilters \cup OtherTypeFilters

PredRows ==
  { r.data : r \in RowPool } \cup
  { [region |-> Null, sales |-> Null, day |-> Null, tier |-> Null],
    [region |-> Str(<<"E","A","S","T">>), sales |-> Str(<<"1","0">>),
     day |-> Str(<<"s","o","o","n">>), tier |-> Str(<<"a">>)],
    [region |-> Str(<<>>), sales |-> Str(<<"a","b","c">>),
     day |-> Str(Jan01), tier |-> Str(<<"n","u","l","l">>)] }

InitPred ==
  /\ dataset = NoDataset
  /\ loading = TRUE
  /\ filters = <<>>
  /\ rowsWithIds = <<>>
  /\ filteredRowsWithIds = <<>>
  /\ filteredData = <<>>
  /\ kpiData = NoKpi
  /\ filteredRowIds = <<>>
  /\ crashed = FALSE
  /\ evalFilter \in PredFilters
  /\ evalRow \in PredRows
  /\ evalResult = "pending"
  /\ ChartNotMounted
  /\ TableNotMounted
  /\ ListNotMounted

\* One call of the callback of activeFilters.every (page.tsx:141-200)
Evaluate ==
  /\ evalResult = "pending"
  /\ evalResult' = FilterCallback(evalFilter, evalRow)
  /\ UNCHANGED <<evalFilter, evalRow>>
  /\ UNCHANGED <<pageVars, chartVars, tableVars, listVars>>

NextPred == Evaluate

SpecPred == InitPred /\ [][NextPred]_vars

-----------------------------------------------------------------------------
(* ChartContainer (src/src/components/dashboard/ChartContainer.tsx), mounted by
   the page with data={filteredData} columns={csvData.columns} (page.tsx:414) *)

\* .slice(0, 10)
TopN == 10

\* The group key of a row: the string form of the cell, null and undefined
\* collapsing into the empty key (design section 4.3)
GroupKey(row, columnName) == String(NullishToEmpty(Cell(row, columnName)))

\* aggregateByColumn(rows, groupBy, valueCol, 'sum') of @/lib/kpi-calculator as
\* design section 4.3 describes it: one { name, value } entry per group key, in the
\* order in which the keys are first seen; empty for degenerate inputs
RECURSIVE AggregateByColumn(_, _, _)
AggregateByColumn(rows, groupBy, valueCol) ==
  IF Len(rows) = 0 \/ groupBy = "" \/ valueCol = "" THEN <<>>
  ELSE
    LET last   == rows[Len(rows)]
        before == AggregateByColumn(SubSeq(rows, 1, Len(rows) - 1), groupBy, valueCol)
        key    == GroupKey(last, groupBy)
        amount == NumericOrZero(Cell(last, valueCol))
    IN  IF \E i \in 1..Len(before) : before[i].name = key
          THEN [i \in 1..Len(before) |->
                  IF before[i].name = key
                    THEN [name |-> key, value |-> before[i].value + amount]
                    ELSE before[i]]
          ELSE Append(before, [name |-> key, value |-> amount])

\* Array.prototype.slice(start, end)
Slice(array, start, end) ==
  SubSeq(array, start + 1, IF end < Len(array) THEN end ELSE Len(array))

\* columns.find(c => c.type \in types)
FindColumn(cols, types) ==
  IF \E i \in 1..Len(cols) : cols[i].type \in types
    THEN cols[CHOOSE i \in 1..Len(cols) :
                /\ cols[i].type \in types
                /\ \A j \in 1..(i - 1) : cols[j].type \notin types]
    ELSE NoColumn

\* const dateColumn = columns.find(c => c.type === 'date')
DateColumn(cols) == FindColumn(cols, {"date"})

\* columns.filter(c => c.type === 'category' || c.type === 'text'), the names
TextColumnNames(cols) ==
  { cols[i].name : i \in { j \in 1..Len(cols) : cols[j].type \in {"category", "text"} } }

\* columns.filter(c => c.type === 'number'), the names
NumberColumnNames(cols) ==
  { cols[i].name : i \in { j \in 1..Len(cols) : cols[j].type = "number" } }

\* One insertion of a stable sort on the values, largest first
RECURSIVE InsertByValue(_, _)
InsertByValue(sorted, entry) ==
  IF sorted = <<>> THEN <<entry>>
  ELSE IF Head(sorted).value >= entry.value
    THEN <<Head(sorted)>> \o InsertByValue(Tail(sorted), entry)
    ELSE <<entry>> \o sorted

RECURSIVE SortByValue(_)
SortByValue(series) ==
  IF series = <<>> THEN <<>>
  ELSE InsertByValue(SortByValue(SubSeq(series, 1, Len(series) - 1)), series[Len(series)])

\* The aggregation sorted by value, largest first, before the slice
ChartDataMemoSorted(d, groupBy, valueCol) ==
  IF groupBy = "" \/ valueCol = "" \/ Len(d) = 0 THEN <<>>
  ELSE Slice(SortByValue(AggregateByColumn(d, groupBy, valueCol)), 0, TopN)

\* The slice taken from the second entry on
ChartDataMemoSkipFirst(d, groupBy, valueCol) ==
  IF groupBy = "" \/ valueCol = "" \/ Len(d) = 0 THEN <<>>
  ELSE Slice(AggregateByColumn(d, groupBy, valueCol), 1, TopN)

\* The aggregation run without the guard, a column not chosen replaced by one
\* of the dataset
ChartDataMemoUnguarded(d, groupBy, valueCol) ==
  Slice(AggregateByColumn(d, IF groupBy = "" THEN "day" ELSE groupBy,
                          IF valueCol = "" THEN "sales" ELSE valueCol), 0, TopN)

\* chartData (ChartContainer.tsx:279-282)
ChartDataMemo(d, groupBy, valueCol) ==
  IF groupBy = "" \/ valueCol = "" \/ Len(d) = 0 THEN <<>>
  ELSE Slice(AggregateByColumn(d, groupBy, valueCol), 0, TopN)

\* new Date(entry.name).getTime(), in days
Instant(entry) == DateFromString(entry.name)

\* One insertion of a stable ascending sort on the instants
RECURSIVE InsertByTime(_, _)
InsertByTime(sorted, entry) ==
  IF sorted = <<>> THEN <<entry>>
  ELSE IF Instant(Head(sorted)).n <= Instant(entry).n
    THEN <<Head(sorted)>> \o InsertByTime(Tail(sorted), entry)
    ELSE <<entry>> \o sorted

RECURSIVE SortByTime(_)
SortByTime(series) ==
  IF series = <<>> THEN <<>>
  ELSE InsertByTime(SortByTime(SubSeq(series, 1, Len(series) - 1)), series[Len(series)])

\* .sort((a, b) => new Date(a.name).getTime() - new Date(b.name).getTime()): the
\* stable ascending order of the instants; when a key is no date the comparator
\* returns NaN and the order is implementation-defined
SortOutcomes(series) ==
  IF \A i \in 1..Len(series) : Instant(series[i]).t = "number"
    THEN {SortByTime(series)}
    ELSE Reorderings(series)

\* The civil date of a day number (inverse of DaysFromCivil)
CivilFromDays(days) ==
  LET z   == days + 719468
      era == z \div 146097
      doe == z - era * 146097
      yoe == (doe - doe \div 1460 + doe \div 36524 - doe \div 146096) \div 365
      doy == doe - (365 * yoe + yoe \div 4 - yoe \div 100)
      mp  == (5 * doy + 2) \div 153
      day == doy - (153 * mp + 2) \div 5 + 1
      month == IF mp < 10 THEN mp + 3 ELSE mp - 9
  IN [year  |-> yoe + era * 400 + (IF month <= 2 THEN 1 ELSE 0),
      month |-> month, day |-> day]

MonthShort ==
  << <<"J","a","n">>, <<"F","e","b">>, <<"M","a","r">>, <<"A","p","r">>,
     <<"M","a","y">>, <<"J","u","n">>, <<"J","u","l">>, <<"A","u","g">>,
     <<"S","e","p">>, <<"O","c","t">>, <<"N","o","v">>, <<"D","e","c">> >>

InvalidDateLabel == <<"I","n","v","a","l","i","d"," ","D","a","t","e">>

\* new Date(name).toLocaleDateString('en-US', { month: 'short', day: 'numeric' }):
\* the local date of the instant, which for a date-only form is UTC midnight
DateLabel(name, offset) ==
  LET instant == DateFromString(name) IN
  IF instant.t # "number" THEN InvalidDateLabel
  ELSE LET civil == CivilFromDays(instant.n + offset) IN
       MonthShort[civil.month] \o <<" ">> \o NatToString(civil.day)

\* timeSeriesData (ChartContainer.tsx:284-293): the values it can take
TimeSeriesOutcomes(d, dateColumn, valueCol, offset) ==
  IF dateColumn = NoColumn \/ valueCol = "" \/ Len(d) = 0 THEN {<<>>}
  ELSE { [i \in 1..Len(q) |-> [name |-> DateLabel(q[i].name, offset), value |-> q[i].value]] :
           q \in SortOutcomes(AggregateByColumn(d, dateColumn.name, valueCol)) }

\* data.reverse() before the aggregation
DataReversedInPlace(d) == [i \in 1..Len(d) |-> d[Len(d) + 1 - i]]

\* The array data after the two memos ran: aggregateByColumn reads it, and slice,
\* sort and map are called on the array aggregateByColumn returned
DataAfterChartMemos(d) == d

\* One render of ChartContainer with props d and state (groupBy, valueCol)
ChartRender(d, groupBy, valueCol, seriesAgain) ==
  /\ data' = DataAfterChartMemos(d)
  /\ groupByColumn' = groupBy
  /\ valueColumn' = valueCol
  /\ chartData' = ChartDataMemo(d, groupBy, valueCol)
  /\ IF seriesAgain
       THEN timeSeriesData' \in
              TimeSeriesOutcomes(d, DateColumn(columns), valueCol, timeZoneOffset)
       ELSE UNCHANGED timeSeriesData
  /\ UNCHANGED <<columns, reportPresets, timeZoneOffset>>

\* The effect "auto-select columns on first load" has something to set
AutoSelectPending ==
  \/ FindColumn(columns, {"category", "text"}) # NoColumn /\ groupByColumn = ""
  \/ FindColumn(columns, {"number"}) # NoColumn /\ valueColumn = ""

\* React.useEffect (ChartContainer.tsx:271-277)
AutoSelect ==
  /\ PageShown
  /\ AutoSelectPending
  /\ LET categoryCol == FindColumn(columns, {"category", "text"})
         numberCol   == FindColumn(columns, {"number"})
     IN  ChartRender(data,
                     IF categoryCol # NoColumn /\ groupByColumn = ""
                       THEN categoryCol.name ELSE groupByColumn,
                     IF numberCol # NoColumn /\ valueColumn = ""
                       THEN numberCol.name ELSE valueColumn,
                     numberCol # NoColumn /\ valueColumn = "")
  /\ UNCHANGED <<pageVars, evalVars, reportType, tableVars, listVars>>

\* The report presets detect their columns by name (ChartContainer.tsx:196-214)
CustomerHints == { <<"c","u","s","t","o","m","e","r">>, <<"c","l","i","e","n","t">> }

ProductHints == { <<"p","r","o","d","u","c","t">>, <<"i","t","e","m">> }

CategoryHints == { <<"c","a","t","e","g","o","r","y">>, <<"t","y","p","e">> }

AmountHints == { <<"a","m","o","u","n","t">>, <<"t","o","t","a","l">>, <<"s","a","l","e","s">> }

QuantityHints == { <<"q","u","a","n","t","i","t","y">>, <<"q","t","y">> }

\* textColumns.find(c => one of the hints is in the lower-cased name)
TextColumnWithHint(cols, hints) ==
  FirstColumn(cols, { i \in 1..Len(cols) :
                      cols[i].type \in {"category", "text"} /\ HasHint(cols[i], hints) })

\* numberColumns.find(c => one of the hints is in the lower-cased name)
NumberColumnWithHint(cols, hints) ==
  FirstColumn(cols, { i \in 1..Len(cols) :
                      cols[i].type = "number" /\ HasHint(cols[i], hints) })

CustomerCol(cols) == TextColumnWithHint(cols, CustomerHints)

ProductCol(cols) == TextColumnWithHint(cols, ProductHints)

CategoryCol(cols) == TextColumnWithHint(cols, CategoryHints)

AmountCol(cols) == NumberColumnWithHint(cols, AmountHints)

QuantityCol(cols) == NumberColumnWithHint(cols, QuantityHints)

\* if (groupCol && valueCol) presets.push({ value, groupBy, valueCol })
Preset(value, groupCol, valueCol) ==
  IF groupCol # NoColumn /\ valueCol # NoColumn
    THEN << [value |-> value, groupBy |-> groupCol.name, valueCol |-> valueCol.name] >>
    ELSE <<>>

\* reportPresets (ChartContainer.tsx:191-258)
ReportPresets(cols) ==
  << [value |-> "custom", groupBy |-> "", valueCol |-> ""] >>
    \o Preset("sales-by-customer", CustomerCol(cols), AmountCol(cols))
    \o Preset("qty-by-customer", CustomerCol(cols), QuantityCol(cols))
    \o Preset("sales-by-product", ProductCol(cols), AmountCol(cols))
    \o Preset("qty-by-product", ProductCol(cols), QuantityCol(cols))
    \o Preset("sales-by-category", CategoryCol(cols), AmountCol(cols))

\* The column selectors of the custom report are on the screen: effects have run,
\* there is data and the report type is 'custom' (ChartContainer.tsx:297-299, 325)
SelectorsShown == PageShown /\ ~AutoSelectPending /\ Len(data) > 0 /\ reportType = "custom"

\* The report type selector is on the screen (ChartContainer.tsx:297-299, 306)
PresetsShown ==
  PageShown /\ ~AutoSelectPending /\ Len(data) > 0 /\ Len(reportPresets) > 1

\* handleReportTypeChange (ChartContainer.tsx:261-268)
HandleReportTypeChange(value) ==
  /\ PresetsShown
  /\ value # reportType
  /\ \E preset \in { reportPresets[i] : i \in 1..Len(reportPresets) } :
       /\ preset.value = value
       /\ reportType' = value
       /\ IF preset.groupBy # "" /\ preset.valueCol # ""
            THEN ChartRender(data, preset.groupBy, preset.valueCol,
                             preset.valueCol # valueColumn)
            ELSE ChartRender(data, groupByColumn, valueColumn, FALSE)
  /\ UNCHANGED <<pageVars, evalVars, tableVars, listVars>>

\* <Select value={groupByColumn} onValueChange={setGroupByColumn}>
SetGroupByColumn(name) ==
  /\ SelectorsShown
  /\ name \in TextColumnNames(columns)
  /\ name # groupByColumn
  /\ ChartRender(data, name, valueColumn, FALSE)
  /\ UNCHANGED <<pageVars, evalVars, reportType, tableVars, listVars>>

\* <Select value={valueColumn} onValueChange={setValueColumn}>
SetValueColumn(name) ==
  /\ SelectorsShown
  /\ name \in NumberColumnNames(columns)
  /\ name # valueColumn
  /\ ChartRender(data, groupByColumn, name, TRUE)
  /\ UNCHANGED <<pageVars, evalVars, reportType, tableVars, listVars>>

\* onAddFilter with the charts on the page: filteredData is recomputed and handed
\* to ChartContainer
AddFilterWithCharts(filter) ==
  /\ ~AutoSelectPending
  /\ AddFilter(filter)
  /\ ChartRender(filteredData', groupByColumn, valueColumn, TRUE)
  /\ UNCHANGED <<evalVars, reportType, tableVars, listVars>>

\* onRemoveFilter with the charts on the page
RemoveFilterWithCharts(id) ==
  /\ ~AutoSelectPending
  /\ RemoveFilter(id)
  /\ ChartRender(filteredData', groupByColumn, valueColumn, TRUE)
  /\ UNCHANGED <<evalVars, reportType, tableVars, listVars>>

Jan05Row ==
  [tier |-> Str(<<"A">>), region |-> Str(East), sales |-> Num(10), units |-> Num(2),
   day |-> Str(Jan05)]

\* Rows of a fetched dataset: the fourth has a null group and cells that parse
\* neither as a number nor as a date, the fifth has no tier, region or units
ChartRowPool ==
  { [id |-> "r1", rowIndex |-> 0, data |-> Jan05Row],
    [id |-> "r2", rowIndex |-> 1,
     data |-> [tier |-> Str(<<"B">>), region |-> Str(West), sales |-> Num(5),
               units |-> Str(<<"1">>), day |-> Str(Dec31)]],
    [id |-> "r3", rowIndex |-> 2,
     data |-> [Jan05Row EXCEPT !.sales = Num(3), !.units = Num(4)]],
    [id |-> "r4", rowIndex |-> 3,
     data |-> [tier |-> Null, region |-> Null, sales |-> Str(<<"a","b","c">>),
               units |-> Null, day |-> Str(<<"s","o","o","n">>)]],
    [id |-> "r5", rowIndex |-> 4,
     data |-> [sales |-> Str(<<"7">>), day |-> Str(Jan01)]] }

LongIds == <<"l1", "l2", "l3", "l4", "l5", "l6", "l7", "l8", "l9", "l10", "l11">>

\* A dataset with one more group than the charts show, the largest sales last
LongRows ==
  [i \in 1..(TopN + 1) |->
     [id |-> LongIds[i], rowIndex |-> i - 1,
      data |-> [tier |-> Str(<<LowerCaseLetters[i]>>), region |-> Str(<<UpperCaseLetters[i]>>),
                sales |-> Num(i), units |-> Num(1), day |-> Str(Jan05)]]]

ChartDatasetPool ==
  { [loaded |-> TRUE, rows |-> q] : q \in DistinctSeqs(ChartRowPool, MaxChartRows) }
    \cup { [loaded |-> TRUE, rows |-> LongRows] }

\* dataset.columns
ColumnsPool ==
  { << [name |-> "tier", type |-> "category"], [name |-> "region", type |-> "text"],
       [name |-> "sales", type |-> "number"], [name |-> "units", type |-> "number"],
       [name |-> "day", type |-> "date"] >>,
    << [name |-> "sales", type |-> "number"], [name |-> "region", type |-> "text"] >>,
    << [name |-> "day", type |-> "date"] >>,
    << [name |-> "sales", type |-> "number"], [name |-> "day", type |-> "date"] >>,
    << [name |-> "client_type", type |-> "text"], [name |-> "item", type |-> "category"],
       [name |-> "total_qty", type |-> "number"], [name |-> "amount", type |-> "number"],
       [name |-> "day", type |-> "date"] >>,
    << [name |-> "Qty", type |-> "text"], [name |-> "ITEM", type |-> "number"],
       [name |-> "Item", type |-> "text"], [name |-> "Sales", type |-> "number"] >> }

\* The filters used while the charts are on the page
ChartFilterPool == { f \in FilterPool : f.id \in {1, 2} }

\* The page after the dataset was fetched and ChartContainer rendered for the
\* first time, its effects not yet run
InitChart ==
  /\ dataset \in ChartDatasetPool
  /\ loading = FALSE
  /\ filters = <<>>
  /\ rowsWithIds = RowsWithIdsMemo(dataset)
  /\ filteredRowsWithIds = rowsWithIds
  /\ filteredData = FilteredDataMemo(filteredRowsWithIds)
  /\ filteredRowIds = FilteredRowIdsMemo(filteredRowsWithIds)
  /\ crashed = FALSE
  /\ evalFilter = BlankFilter(0, "region", "text", "equals")
  /\ evalRow = [region |-> Null]
  /\ evalResult = "pending"
  /\ data = filteredData
  /\ columns \in ColumnsPool
  /\ kpiData = KpiDataMemo(dataset, filteredData)
  /\ groupByColumn = ""
  /\ valueColumn = ""
  /\ chartData = <<>>
  /\ timeSeriesData = <<>>
  /\ reportType = "custom"
  /\ reportPresets = ReportPresets(columns)
  /\ timeZoneOffset \in {0, -1}
  /\ TableNotMounted
  /\ ListNotMounted

PresetValues ==
  {"custom", "sales-by-customer", "qty-by-customer", "sales-by-product",
   "qty-by-product", "sales-by-category"}

NextChart ==
  \/ AutoSelect
  \/ \E value \in PresetValues : HandleReportTypeChange(value)
  \/ \E name \in {"tier", "region"} : SetGroupByColumn(name)
  \/ \E name \in {"sales", "units"} : SetValueColumn(name)
  \/ \E filter \in ChartFilterPool : AddFilterWithCharts(filter)
  \/ \E id \in 1..2 : RemoveFilterWithCharts(id)

SpecChart == InitChart /\ [][NextChart]_vars

-----------------------------------------------------------------------------
(* EditableTable (components/csv/EditableTable), mounted by the page with
   data={filteredData} rowIds={filteredRowIds} onDataChange={refreshData}
   (page.tsx:422-428), and the dataset fetches it sets off *)

\* The dataset fetches followed at a time
MaxRequests == 2

\* rowIds[rowIndex] put into the URL of the request: undefined when the index is
\* past the end of the array
RowIdAt(rowIds, rowIndex) ==
  IF rowIndex.t = "number" /\ rowIndex.n < Len(rowIds) THEN rowIds[rowIndex.n + 1]
  ELSE "undefined"

\* const rowId = rowIds[editingCell.rowIndex] (EditableTable:113, 152): rowIds is the
\* prop of the render in which the handler runs
RowIdSent(rowIds, rowIndex, shown) == RowIdAt(rowIds, rowIndex)

\* refreshData() is called (page.tsx:99-101): a fetch leaves, its response is
\* what the server will answer
IssueRefresh(answer) ==
  /\ Len(answers) < MaxRequests
  /\ answers' = Append(answers, answer)
  /\ inFlight' = inFlight \cup {Len(answers) + 1}

\* The response to fetch n arrives (page.tsx:102-108): setDataset on success
RefreshArrives(n) ==
  /\ n \in inFlight
  /\ inFlight' = inFlight \ {n}
  /\ UNCHANGED answers
  /\ IF answers[n].success
       THEN RefreshData(answers[n].dataset)
       ELSE PageShown /\ UNCHANGED pageVars
  /\ UNCHANGED <<editingCell, editShown, deleteModal, deleteShown, lastRequest>>
  /\ UNCHANGED <<evalVars, chartVars, listVars>>

\* The table can be clicked: the page shows it and no dialog covers it
TableShown == PageShown /\ ~deleteModal.open

\* startEdit (EditableTable:96-99), from a click on the cell at row.index
StartEdit(rowIndex) ==
  /\ TableShown
  /\ rowIndex < Len(filteredRowIds)
  /\ editingCell' = Num(rowIndex)
  /\ editShown' = filteredRowIds[rowIndex + 1]
  /\ UNCHANGED <<deleteModal, deleteShown, lastRequest, answers, inFlight>>
  /\ UNCHANGED <<pageVars, evalVars, chartVars, listVars>>

\* cancelEdit (EditableTable:102-105)
CancelEdit ==
  /\ TableShown
  /\ editingCell # Null
  /\ editingCell' = Null
  /\ UNCHANGED <<editShown, deleteModal, deleteShown, lastRequest, answers, inFlight>>
  /\ UNCHANGED <<pageVars, evalVars, chartVars, listVars>>

\* saveEdit with the response to its PATCH (EditableTable:108-146): on success
\* onDataChange, which is refreshData, is called
SaveEdit(success, answer) ==
  /\ TableShown
  /\ editingCell # Null
  /\ lastRequest' = [method |-> "PATCH",
                     rowId  |-> RowIdSent(filteredRowIds, editingCell, editShown),
                     shown  |-> editShown]
  /\ editingCell' = Null
  /\ IF success THEN IssueRefresh(answer) ELSE UNCHANGED <<answers, inFlight>>
  /\ UNCHANGED <<editShown, deleteModal, deleteShown>>
  /\ UNCHANGED <<pageVars, evalVars, chartVars, listVars>>

\* setDeleteModal({ open: true, rowIndex: row.index }) (EditableTable actions column)
OpenDeleteModal(rowIndex) ==
  /\ TableShown
  /\ rowIndex < Len(filteredRowIds)
  /\ deleteModal' = [open |-> TRUE, rowIndex |-> Num(rowIndex)]
  /\ deleteShown' = filteredRowIds[rowIndex + 1]
  /\ UNCHANGED <<editingCell, editShown, lastRequest, answers, inFlight>>
  /\ UNCHANGED <<pageVars, evalVars, chartVars, listVars>>

\* onOpenChange(false) or Cancel of the dialog (EditableTable:537-539)
CloseDeleteModal ==
  /\ PageShown
  /\ deleteModal.open
  /\ deleteModal' = [open |-> FALSE, rowIndex |-> Null]
  /\ UNCHANGED <<editingCell, editShown, deleteShown, lastRequest, answers, inFlight>>
  /\ UNCHANGED <<pageVars, evalVars, chartVars, listVars>>

\* confirmDeleteRow with the response to its DELETE (EditableTable:149-172)
ConfirmDeleteRow(success, answer) ==
  /\ PageShown
  /\ deleteModal.open
  /\ deleteModal.rowIndex # Null
  /\ lastRequest' = [method |-> "DELETE",
                     rowId  |-> RowIdSent(filteredRowIds, deleteModal.rowIndex, deleteShown),
                     shown  |-> deleteShown]
  /\ IF success
       THEN /\ IssueRefresh(answer)
            /\ deleteModal' = [open |-> FALSE, rowIndex |-> Null]
       ELSE UNCHANGED <<answers, inFlight, deleteModal>>
  /\ UNCHANGED <<editingCell, editShown, deleteShown>>
  /\ UNCHANGED <<pageVars, evalVars, chartVars, listVars>>

\* handleCleanComplete, the clean request a success (page.tsx:259-301): refreshData
HandleCleanComplete(answer) ==
  /\ TableShown
  /\ IssueRefresh(answer)
  /\ UNCHANGED <<editingCell, editShown, deleteModal, deleteShown, lastRequest>>
  /\ UNCHANGED <<pageVars, evalVars, chartVars, listVars>>

\* onAddFilter while the table is on the page
AddFilterWithTable(filter) ==
  /\ ~deleteModal.open
  /\ AddFilter(filter)
  /\ UNCHANGED <<evalVars, chartVars, tableVars, listVars>>

\* onRemoveFilter while the table is on the page
RemoveFilterWithTable(id) ==
  /\ ~deleteModal.open
  /\ RemoveFilter(id)
  /\ UNCHANGED <<evalVars, chartVars, tableVars, listVars>>

\* The rows of the datasets the server answers with
TableRowsPool ==
  { q \in DistinctSeqs(RowPool, 2) :
      [i \in 1..Len(q) |-> q[i].id] \in {<<"c3", "a1">>, <<"a1">>, <<"a1", "b2">>} }

\* The responses to GET /api/datasets/<id>
AnswerPool ==
  { [success |-> TRUE, dataset |-> [loaded |-> TRUE, rows |-> q]] : q \in TableRowsPool }
    \cup { [success |-> FALSE, dataset |-> NoDataset] }

\* The filter used while the table is on the page: sales between 4 and 12
TableFilterPool == { f \in FilterPool : f.id = 2 }

\* The page after the dataset was fetched, the table rendered
InitTable ==
  /\ dataset \in { a.dataset : a \in { b \in AnswerPool : b.success } }
  /\ loading = FALSE
  /\ filters = <<>>
  /\ rowsWithIds = RowsWithIdsMemo(dataset)
  /\ filteredRowsWithIds = rowsWithIds
  /\ filteredData = FilteredDataMemo(filteredRowsWithIds)
  /\ filteredRowIds = FilteredRowIdsMemo(filteredRowsWithIds)
  /\ crashed = FALSE
  /\ evalFilter = BlankFilter(0, "region", "text", "equals")
  /\ evalRow = [region |-> Null]
  /\ evalResult = "pending"
  /\ ChartNotMounted
  /\ kpiData = KpiDataMemo(dataset, filteredData)
  /\ TableNotMounted
  /\ ListNotMounted

NextTable ==
  \/ \E rowIndex \in 0..1 : StartEdit(rowIndex)
  \/ CancelEdit
  \/ \E success \in BOOLEAN, answer \in AnswerPool : SaveEdit(success, answer)
  \/ \E rowIndex \in 0..1 : OpenDeleteModal(rowIndex)
  \/ CloseDeleteModal
  \/ \E success \in BOOLEAN, answer \in AnswerPool : ConfirmDeleteRow(success, answer)
  \/ \E answer \in AnswerPool : HandleCleanComplete(answer)
  \/ \E n \in 1..MaxRequests : RefreshArrives(n)
  \/ \E filter \in TableFilterPool : AddFilterWithTable(filter)
  \/ \E id \in {2} : RemoveFilterWithTable(id)

SpecTable == InitTable /\ [][NextTable]_vars

-----------------------------------------------------------------------------
(* The dataset list page, DashboardPage (src/src/app/dashboard/page.tsx) *)

\* The datasets the server holds at most
MaxDatasets == 3

DatasetIds == {"d1", "d2", "d3", "d4"}

\* prev.filter(d => d.id !== id)
WithoutDataset(list, id) == SelectSeq(list, LAMBDA d : d # id)

\* fetchDatasets with its response (dashboard/page.tsx:59-71)
FetchDatasets(success) ==
  /\ listLoading
  /\ datasets' = IF success THEN serverDatasets ELSE datasets
  /\ listLoading' = FALSE
  /\ UNCHANGED <<listDeleteModal, listDeleting, listDeleteRequest, serverDatasets>>
  /\ UNCHANGED <<pageVars, evalVars, chartVars, tableVars>>

\* handleDeleteClick (dashboard/page.tsx:113-116), from the card of a dataset
HandleDeleteClick(id) ==
  /\ ~listLoading
  /\ ~listDeleteModal.open
  /\ \E i \in 1..Len(datasets) : datasets[i] = id
  /\ listDeleteModal' = [open |-> TRUE, dataset |-> id]
  /\ UNCHANGED <<datasets, listLoading, listDeleting, listDeleteRequest, serverDatasets>>
  /\ UNCHANGED <<pageVars, evalVars, chartVars, tableVars>>

\* The dialog closed whether or not a delete is in flight
DismissDialogWhileDeleting ==
  /\ listDeleteModal.open
  /\ listDeleteModal' = [open |-> FALSE, dataset |-> ""]
  /\ UNCHANGED <<datasets, listLoading, listDeleting, listDeleteRequest, serverDatasets>>
  /\ UNCHANGED <<pageVars, evalVars, chartVars, tableVars>>

\* onOpenChange(false), or Cancel, which is disabled while deleting
\* (dashboard/page.tsx:336-341, 355-361)
DismissDialog ==
  /\ listDeleteModal.open
  /\ ~listDeleting
  /\ listDeleteModal' = [open |-> FALSE, dataset |-> ""]
  /\ UNCHANGED <<datasets, listLoading, listDeleting, listDeleteRequest, serverDatasets>>
  /\ UNCHANGED <<pageVars, evalVars, chartVars, tableVars>>

\* confirmDelete up to its await (dashboard/page.tsx:119-124); the button is
\* disabled while deleting
ConfirmDelete ==
  /\ listDeleteModal.open
  /\ listDeleteModal.dataset # ""
  /\ ~listDeleting
  /\ listDeleting' = TRUE
  /\ listDeleteRequest' = [id |-> listDeleteModal.dataset, response |-> "pending"]
  /\ UNCHANGED <<datasets, listLoading, listDeleteModal, serverDatasets>>
  /\ UNCHANGED <<pageVars, evalVars, chartVars, tableVars>>

\* DELETE /api/datasets/<id> at the server: it answers success after removing the
\* dataset, or refuses, or the request throws at the client with the dataset
\* removed or not
ServerDelete(response, removed) ==
  /\ listDeleteRequest.response = "pending"
  /\ response = "success" => removed
  /\ response = "refused" => ~removed
  /\ listDeleteRequest' = [listDeleteRequest EXCEPT !.response = response]
  /\ serverDatasets' = IF removed THEN WithoutDataset(serverDatasets, listDeleteRequest.id)
                       ELSE serverDatasets
  /\ UNCHANGED <<datasets, listLoading, listDeleteModal, listDeleting>>
  /\ UNCHANGED <<pageVars, evalVars, chartVars, tableVars>>

\* confirmDelete after its await (dashboard/page.tsx:125-134)
DeleteResponse ==
  /\ listDeleteRequest.response \in {"success", "refused", "threw"}
  /\ IF listDeleteRequest.response = "success"
       THEN /\ datasets' = WithoutDataset(datasets, listDeleteRequest.id)
            /\ listDeleteModal' = [open |-> FALSE, dataset |-> ""]
       ELSE UNCHANGED <<datasets, listDeleteModal>>
  /\ listDeleting' = FALSE
  /\ listDeleteRequest' = NoListRequest
  /\ UNCHANGED <<listLoading, serverDatasets>>
  /\ UNCHANGED <<pageVars, evalVars, chartVars, tableVars>>

\* The list page mounted, its fetch on the way
InitList ==
  /\ dataset = NoDataset
  /\ loading = TRUE
  /\ filters = <<>>
  /\ rowsWithIds = <<>>
  /\ filteredRowsWithIds = <<>>
  /\ filteredData = <<>>
  /\ kpiData = NoKpi
  /\ filteredRowIds = <<>>
  /\ crashed = FALSE
  /\ evalFilter = BlankFilter(0, "region", "text", "equals")
  /\ evalRow = [region |-> Null]
  /\ evalResult = "pending"
  /\ ChartNotMounted
  /\ TableNotMounted
  /\ datasets = <<>>
  /\ listLoading = TRUE
  /\ listDeleteModal = [open |-> FALSE, dataset |-> ""]
  /\ listDeleting = FALSE
  /\ listDeleteRequest = NoListRequest
  /\ serverDatasets \in DistinctSeqs(DatasetIds, MaxDatasets)

NextList ==
  \/ \E success \in BOOLEAN : FetchDatasets(success)
  \/ \E id \in DatasetIds : HandleDeleteClick(id)
  \/ DismissDialog
  \/ ConfirmDelete
  \/ \E response \in {"success", "refused", "threw"}, removed \in BOOLEAN :
       ServerDelete(response, removed)
  \/ DeleteResponse

SpecList == InitList /\ [][NextList]_vars

-----------------------------------------------------------------------------
(* Properties of the filter engine and of the page *)

\* The rows for which every active filter evaluates to true, in their order
RowsPassingAll(rows, filterList) ==
  SelectSeq(rows, LAMBDA r :
    \A i \in 1..Len(filterList) :
      filterList[i].isActive => FilterCallback(filterList[i], r.data) = "true")

\* q is a subsequence of r: the elements of q occur in r in the same order
IsSubsequence(q, r) ==
  \E pos \in [1..Len(q) -> 1..Len(r)] :
    /\ \A i \in 1..Len(q) : r[pos[i]] = q[i]
    /\ \A i, j \in 1..Len(q) : i < j => pos[i] < pos[j]

\* q with x inserted after its first k elements
InsertAt(q, k, x) == SubSeq(q, 1, k) \o <<x>> \o SubSeq(q, k + 1, Len(q))

\* Every active predicate evaluated on every row, nothing skipped
FullEvaluation(rows, filterList) ==
  IF \E i \in 1..Len(rows), j \in 1..Len(filterList) :
       filterList[j].isActive /\ FilterCallback(filterList[j], rows[i].data) = "TypeError"
    THEN [err |-> TRUE, rows |-> <<>>]
    ELSE [err |-> FALSE, rows |-> RowsPassingAll(rows, filterList)]

\* C1: for every row sequence and every filter list the filtered result is exactly
\* the rows, in their original order and once each, for which every active filter
\* evaluates to true, and inactive filters do not influence it.
C1_ResultIsPassingSubsequence ==
  /\ ~crashed
  /\ filteredRowsWithIds = RowsPassingAll(RowsWithIdsMemo(dataset), filters)
  /\ FilterRows(RowsWithIdsMemo(dataset), ActiveFilters(filters))
       = [err |-> FALSE, rows |-> filteredRowsWithIds]

\* C1, on the runs in which no predicate throws: the result is that subsequence
C1_HoldsUnlessThrown ==
  ~crashed =>
    /\ filteredRowsWithIds = RowsPassingAll(RowsWithIdsMemo(dataset), filters)
    /\ IsSubsequence(filteredRowsWithIds, RowsWithIdsMemo(dataset))

\* C2: with an empty filter list, or one whose filters are all inactive, filtering
\* returns all rows unchanged and in the same order.
C2_Identity ==
  (\A i \in 1..Len(filters) : ~filters[i].isActive) =>
    /\ ~crashed
    /\ filteredRowsWithIds = RowsWithIdsMemo(dataset)
    /\ filteredData = [i \in 1..Len(dataset.rows) |-> dataset.rows[i].data]

\* C2 witness: an inactive filter that would reject a displayed row
C2_Witness ==
  /\ ~crashed
  /\ Len(filters) > 0
  /\ \A i \in 1..Len(filters) : ~filters[i].isActive
  /\ \E i \in 1..Len(filters), j \in 1..Len(filteredRowsWithIds) :
       FilterCallback(filters[i], filteredRowsWithIds[j].data) = "false"

\* C3: filtering the filtered rows again with the same filter list yields the same
\* outcome as filtering once (a first pass that throws leaves nothing to filter).
C3_Idempotent ==
  LET once  == FilterRows(RowsWithIdsMemo(dataset), filters)
      twice == IF once.err THEN once ELSE FilterRows(once.rows, filters)
  IN  /\ twice = once
      /\ ~crashed =>
           FilterRows(filteredRowsWithIds, filters)
             = [err |-> FALSE, rows |-> filteredRowsWithIds]

\* C3 witness: active filters kept some rows and rejected others
C3_Witness ==
  /\ ~crashed
  /\ Len(ActiveFilters(filters)) > 0
  /\ Len(filteredRowsWithIds) > 0
  /\ Len(filteredRowsWithIds) < Len(rowsWithIds)

\* C4: for a filter list F and an active filter f, filtering with F plus f returns
\* no more rows than filtering with F, and every row it returns is returned for F
\* (a run that throws returns no row).
C4_Monotone ==
  \A f \in FilterPool, k \in 0..Len(filters) :
    LET alone == FilterRows(rowsWithIds, filters)
        plus  == FilterRows(rowsWithIds, InsertAt(filters, k, f))
    IN  /\ Len(plus.rows) <= Len(alone.rows)
        /\ IsSubsequence(plus.rows, alone.rows)

\* C4 witness: with an active filter set, a further active filter strictly shrinks
\* the result and leaves rows
C4_Witness ==
  /\ ~crashed
  /\ Len(ActiveFilters(filters)) > 0
  /\ \E f \in FilterPool :
       LET plus == FilterRows(rowsWithIds, Append(filters, f)) IN
         /\ ~plus.err
         /\ Len(plus.rows) > 0
         /\ Len(plus.rows) < Len(filteredRowsWithIds)

\* C5: the outcome (the rows returned, or a failure) is the same for every
\* permutation of the filter list, and is that of evaluating every active
\* predicate on every row.
C5_OrderAndShortCircuitIrrelevant ==
  \A perm \in Reorderings(filters) :
    FilterRows(rowsWithIds, perm) = FullEvaluation(rowsWithIds, filters)

\* C6: every filtered row carries the id it had in the dataset, and
\* filteredRowIds[i] is the id of the dataset row whose data is filteredData[i].
C6_IdsPropagate ==
  ~crashed =>
    /\ Len(filteredRowIds) = Len(filteredData)
    /\ Len(filteredRowIds) = Len(filteredRowsWithIds)
    /\ \E pos \in [1..Len(filteredRowIds) -> 1..Len(dataset.rows)] :
         /\ \A i, j \in 1..Len(filteredRowIds) : i < j => pos[i] < pos[j]
         /\ \A i \in 1..Len(filteredRowIds) :
              /\ dataset.rows[pos[i]].id = filteredRowIds[i]
              /\ dataset.rows[pos[i]].data = filteredData[i]
              /\ filteredRowsWithIds[i].id = filteredRowIds[i]
              /\ filteredRowsWithIds[i].data = filteredData[i]

\* C6 witness: an active filter rejected the first row of the dataset, so the
\* first filtered row is a later one
C6_Witness ==
  /\ ~crashed
  /\ Len(ActiveFilters(filters)) > 0
  /\ Len(filteredRowIds) > 0
  /\ filteredRowIds[1] # dataset.rows[1].id

\* C7: after any sequence of filter-set mutations and dataset loads, the displayed
\* filtered rows are the filter engine applied to the current rows and the current
\* filter list, and the KPI and chart input are computed from that filtered set.
C7_NeverStale ==
  LET rows    == RowsWithIdsMemo(dataset)
      outcome == FilterRows(rows, filters)
  IN  /\ crashed = outcome.err
      /\ ~crashed =>
           /\ rowsWithIds = rows
           /\ filteredRowsWithIds = outcome.rows
           /\ filteredData = FilteredDataMemo(outcome.rows)
           /\ filteredRowIds = FilteredRowIdsMemo(outcome.rows)
           /\ kpiData = KpiDataMemo(dataset, FilteredDataMemo(outcome.rows))

\* C7 witness: two filters are set, one rejects a row of the loaded dataset, and
\* KPIs are calculated from the rows that are left
C7_Witness ==
  /\ ~crashed
  /\ Len(filters) = 2
  /\ Len(filteredData) > 0
  /\ Len(filteredData) < Len(dataset.rows)
  /\ kpiData.calculated

\* The operators a filter of each type supports
SupportedOperators(columnType) ==
  CASE columnType = "text"     -> {"equals", "contains", "startsWith", "endsWith"}
    [] columnType = "number"   -> {"equals", "greaterThan", "lessThan", "between"}
    [] columnType = "date"     -> {"dateRange"}
    [] columnType = "category" -> {"in"}
    [] OTHER                   -> {}

\* C8: a row whose cell in the filtered column is null is excluded by every
\* text, number, date or category filter with a supported operator.
C8_NullNeverMatches ==
  ( /\ evalResult # "pending"
    /\ evalFilter.columnName \in DOMAIN evalRow
    /\ evalRow[evalFilter.columnName] = Null
    /\ evalFilter.operator \in SupportedOperators(evalFilter.columnType) )
  => evalResult = "false"

\* C9: a filter that names a column the row does not have passes every row.
C9_MissingColumnPasses ==
  (evalResult # "pending" /\ evalFilter.columnName \notin DOMAIN evalRow)
  => evalResult = "true"

\* C10: evaluating any filter, malformed ones included, on any row returns a
\* boolean and never raises an error.
C10_PredicateTotal ==
  evalResult \in {"pending", "true", "false"}

\* The cell the evaluated filter looks at
EvalCell == Cell(evalRow, evalFilter.columnName)

\* C11: for every column type (text, number, date, category or an unrecognised
\* type), a filter whose operator is not one of those defined for the type
\* evaluates to true on every row.
C11_UnknownOperatorPasses ==
  ( /\ evalResult # "pending"
    /\ evalFilter.operator \notin SupportedOperators(evalFilter.columnType) )
  => evalResult = "true"

\* C11, where it does hold: number, date and unrecognised types, and text filters
\* whose value is a string
C11_HoldsForSwitchedTypes ==
  ( /\ evalResult # "pending"
    /\ evalFilter.operator \notin SupportedOperators(evalFilter.columnType)
    /\ evalFilter.columnType # "category"
    /\ evalFilter.columnType = "text" => evalFilter.value.t = "string" )
  => evalResult = "true"

\* C12: on a type mismatch between the column type of the filter and the value of
\* the row (a non-numeric cell under a number filter, an unparseable cell under a
\* date filter that has a bound) the predicate evaluates to true.
C12_MismatchPasses ==
  ( /\ evalResult # "pending"
    /\ \/ /\ evalFilter.columnType = "number"
          /\ Number(EvalCell).t = "NaN"
       \/ /\ evalFilter.columnType = "date"
          /\ Truthy(evalFilter.from) \/ Truthy(evalFilter.to)
          /\ DateFromString(String(EvalCell)).t = "NaN" )
  => evalResult = "true"

\* C12 as amended: on such a mismatch the comparisons are those of NaN or of an
\* invalid date, so the row is rejected under every operator defined for the type,
\* and passes only when the operator is not one of them.
C12_MismatchFollowsComparison ==
  ( /\ evalResult # "pending"
    /\ \/ /\ evalFilter.columnType = "number"
          /\ Number(EvalCell).t = "NaN"
       \/ /\ evalFilter.columnType = "date"
          /\ Truthy(evalFilter.from) \/ Truthy(evalFilter.to)
          /\ DateFromString(String(EvalCell)).t = "NaN" )
  => evalResult = IF evalFilter.operator \in SupportedOperators(evalFilter.columnType)
                    THEN "false" ELSE "true"

\* C12 witness: a number filter rejected a cell that is text
C12_Witness ==
  /\ evalResult = "false"
  /\ evalFilter.columnType = "number"
  /\ evalFilter.operator = "greaterThan"
  /\ Number(evalFilter.value).t = "number"
  /\ EvalCell.t = "string"
  /\ Number(EvalCell) = NaN

\* String.prototype.toUpperCase
toUpperCase(str) ==
  [i \in 1..Len(str) |->
     IF \E k \in 1..26 : LowerCaseLetters[k] = str[i]
       THEN UpperCaseLetters[CHOOSE k \in 1..26 : LowerCaseLetters[k] = str[i]]
       ELSE str[i]]

\* A row with every string cell in upper case
UpperCaseRow(row) ==
  [k \in DOMAIN row |-> IF row[k].t = "string" THEN Str(toUpperCase(row[k].s)) ELSE row[k]]

\* C13: for the text operators equals, contains, startsWith and endsWith the result
\* is the corresponding string relation between the lower-cased string form of the
\* cell (null or missing read as the empty string) and the lower-cased filter
\* value, so a cell or a filter value in another letter case gives the same result.
C13_TextCaseInsensitive ==
  ( /\ evalResult # "pending"
    /\ evalFilter.columnType = "text"
    /\ evalFilter.value.t = "string"
    /\ evalFilter.operator \in SupportedOperators("text") )
  =>
    LET cell   == toLowerCase(String(NullishToEmpty(EvalCell)))
        wanted == toLowerCase(evalFilter.value.s)
        relation ==
          CASE evalFilter.operator = "equals"     -> cell = wanted
            [] evalFilter.operator = "contains"   ->
                 \E i \in 0..Len(cell) : \E j \in i..Len(cell) : SubSeq(cell, i + 1, j) = wanted
            [] evalFilter.operator = "startsWith" ->
                 \E j \in 0..Len(cell) : SubSeq(cell, 1, j) = wanted
            [] evalFilter.operator = "endsWith"   ->
                 \E i \in 0..Len(cell) : SubSeq(cell, i + 1, Len(cell)) = wanted
    IN  /\ evalResult = Bool(relation)
        /\ FilterCallback([evalFilter EXCEPT !.value = Str(toUpperCase(evalFilter.value.s))],
                          evalRow) = evalResult
        /\ FilterCallback(evalFilter, UpperCaseRow(evalRow)) = evalResult

\* C13 witness: an equals filter matched a cell that is written in another case
C13_Witness ==
  /\ evalResult = "true"
  /\ evalFilter.columnType = "text"
  /\ evalFilter.operator = "equals"
  /\ EvalCell.t = "string"
  /\ evalFilter.value.t = "string"
  /\ EvalCell.s # evalFilter.value.s

\* A bound that was not given: the field is absent or the empty string
NotGiven(bound) == bound = Undefined \/ bound = Str(<<>>)

\* C14: a number filter with operator between passes a row exactly when
\* value <= cell <= valueTo after numeric coercion, both ends included, and with
\* valueTo absent it is value that bounds both sides (between is then equals).
C14_BetweenInclusive ==
  ( /\ evalResult # "pending"
    /\ evalFilter.columnType = "number"
    /\ evalFilter.operator = "between" )
  =>
    LET cell == Number(EvalCell)
        low  == Number(evalFilter.value)
        high == IF NotGiven(evalFilter.valueTo) THEN low ELSE Number(evalFilter.valueTo)
    IN  /\ evalResult = Bool(/\ cell.t = "number" /\ low.t = "number" /\ high.t = "number"
                             /\ low.n <= cell.n /\ cell.n <= high.n)
        /\ NotGiven(evalFilter.valueTo) =>
             evalResult = FilterCallback([evalFilter EXCEPT !.operator = "equals"], evalRow)

\* C14 witness: a cell equal to the upper bound passed
C14_Witness ==
  /\ evalResult = "true"
  /\ evalFilter.columnType = "number"
  /\ evalFilter.operator = "between"
  /\ ~NotGiven(evalFilter.valueTo)
  /\ Number(EvalCell) = Number(evalFilter.valueTo)
  /\ Number(EvalCell) # Number(evalFilter.value)

\* C15: when the numeric coercion of the cell or of a bound of the filter fails,
\* equals, greaterThan and lessThan reject the row, and between rejects it
\* whenever the cell or either bound is NaN.
C15_NaNRejects ==
  ( /\ evalResult # "pending"
    /\ evalFilter.columnType = "number"
    /\ evalFilter.operator \in SupportedOperators("number")
    /\ \/ Number(EvalCell) = NaN
       \/ Number(evalFilter.value) = NaN
       \/ /\ evalFilter.operator = "between"
          /\ ~NotGiven(evalFilter.valueTo)
          /\ Number(evalFilter.valueTo) = NaN )
  => evalResult = "false"

\* C15 witness: equals rejected a cell and a filter value that are both NaN
C15_Witness ==
  /\ evalResult = "false"
  /\ evalFilter.columnType = "number"
  /\ evalFilter.operator = "equals"
  /\ Number(EvalCell) = NaN
  /\ Number(evalFilter.value) = NaN

\* C16: a date filter with operator dateRange passes a row exactly when the date
\* instant of the cell is >= from (if from is given) and <= to (if to is given),
\* both ends included; a side without a bound is unconstrained and with neither
\* bound every row passes.
C16_DateRangeInclusive ==
  ( /\ evalResult # "pending"
    /\ evalFilter.columnType = "date"
    /\ evalFilter.operator = "dateRange" )
  =>
    LET instant == DateFromString(String(EvalCell))
        from    == IF NotGiven(evalFilter.from) THEN Null ELSE DateFromString(evalFilter.from.s)
        to      == IF NotGiven(evalFilter.to) THEN Null ELSE DateFromString(evalFilter.to.s)
    IN  evalResult =
          Bool(/\ ~NotGiven(evalFilter.from) =>
                    instant.t = "number" /\ from.t = "number" /\ instant.n >= from.n
               /\ ~NotGiven(evalFilter.to) =>
                    instant.t = "number" /\ to.t = "number" /\ instant.n <= to.n)

\* C16 witness: a cell dated on the lower bound itself passed
C16_Witness ==
  /\ evalResult = "true"
  /\ evalFilter.columnType = "date"
  /\ evalFilter.operator = "dateRange"
  /\ ~NotGiven(evalFilter.from)
  /\ EvalCell.t = "string"
  /\ EvalCell.s = evalFilter.from.s

\* C17: a category filter passes a row exactly when the string form of the cell is
\* a member of the values list of the filter, except that an empty or absent
\* values list passes every row.
C17_CategoryMembership ==
  ( /\ evalResult # "pending"
    /\ evalFilter.columnType = "category"
    /\ evalFilter.values.t \in {"undefined", "array"} )
  =>
    LET list == evalFilter.values.items IN
    evalResult = Bool(\/ list = <<>>
                      \/ String(EvalCell) \in { list[i] : i \in 1..Len(list) })

\* C17 witness: an empty values list passed a row
C17_Witness ==
  /\ evalResult = "true"
  /\ evalFilter.columnType = "category"
  /\ evalFilter.values = Values(<<>>)

\* q is r with some elements left out (decided from the front)
RECURSIVE LeftAfterOmissions(_, _)
LeftAfterOmissions(q, r) ==
  IF q = <<>> THEN TRUE
  ELSE IF r = <<>> THEN FALSE
  ELSE IF Head(q) = Head(r) THEN LeftAfterOmissions(Tail(q), Tail(r))
  ELSE LeftAfterOmissions(q, Tail(r))

DataKeys == [i \in 1..Len(data) |-> GroupKey(data[i], groupByColumn)]

\* The row in which a group key is first seen
FirstSeenAt(key) == CHOOSE i \in 1..Len(data) : DataKeys[i] = key /\ \A j \in 1..(i - 1) : DataKeys[j] # key

\* C19: the sum aggregation has exactly one entry per distinct string-formed value
\* of the group-by column in the rows (null and undefined collapsing into one
\* group), in the order in which the keys are first seen; the chart series is its
\* first TopN entries.
C19_OneEntryPerGroupFirstSeen ==
  (groupByColumn # "" /\ valueColumn # "") =>
    LET series == AggregateByColumn(data, groupByColumn, valueColumn)
        keys   == { DataKeys[i] : i \in 1..Len(data) }
    IN  /\ Len(series) = Cardinality(keys)
        /\ { series[a].name : a \in 1..Len(series) } = keys
        /\ \A a, b \in 1..Len(series) :
             a < b => FirstSeenAt(series[a].name) < FirstSeenAt(series[b].name)
        /\ \A i, j \in 1..Len(data) :
             Cell(data[i], groupByColumn) \in {Null, Undefined}
               /\ Cell(data[j], groupByColumn) \in {Null, Undefined}
             => DataKeys[i] = DataKeys[j]
        /\ chartData = SubSeq(series, 1, IF Len(series) < TopN THEN Len(series) ELSE TopN)

\* C19 witness: a null and a missing group cell fell into one group, seen before
\* a group with a larger sum
C19_Witness ==
  /\ Len(chartData) = 2
  /\ Len(data) = 3
  /\ \E i, j \in 1..Len(data) :
       /\ i < j
       /\ {Cell(data[i], groupByColumn), Cell(data[j], groupByColumn)} = {Null, Undefined}
  /\ chartData[1].value < chartData[2].value

RECURSIVE SumOfValues(_)
SumOfValues(series) ==
  IF series = <<>> THEN 0 ELSE series[1].value + SumOfValues(Tail(series))

RECURSIVE SumOfColumn(_, _)
SumOfColumn(rows, columnName) ==
  IF rows = <<>> THEN 0
  ELSE Number(Cell(rows[1], columnName)).n + SumOfColumn(Tail(rows), columnName)

\* C20: for rows whose value column parses in every row, the values of the
\* aggregation entries add up to the sum of the value column over the rows (and so
\* do those of the chart series when it shows every group).
C20_Conservation ==
  ( /\ groupByColumn # "" /\ valueColumn # ""
    /\ \A i \in 1..Len(data) : Number(Cell(data[i], valueColumn)).t = "number" )
  =>
    LET series == AggregateByColumn(data, groupByColumn, valueColumn) IN
    /\ SumOfValues(series) = SumOfColumn(data, valueColumn)
    /\ Len(series) <= TopN => SumOfValues(chartData) = SumOfColumn(data, valueColumn)

\* C20 witness: three rows that parse, two of them in one group
C20_Witness ==
  /\ Len(data) = 3
  /\ Len(chartData) = 2
  /\ \A i \in 1..Len(data) : Number(Cell(data[i], valueColumn)).t = "number"
  /\ SumOfValues(chartData) > 0

\* C21: degenerate aggregation inputs give an empty series and no error: with no
\* rows, no group-by column or no value column the chart series is empty, and
\* with no date column, no value column or no rows the time series is empty.
C21_DegenerateInputsEmpty ==
  /\ (Len(data) = 0 \/ groupByColumn = "" \/ valueColumn = "") => chartData = <<>>
  /\ (DateColumn(columns) = NoColumn \/ valueColumn = "" \/ Len(data) = 0)
       => timeSeriesData = <<>>

\* C21 witness: rows and a value column but no column to group by, so the chart
\* series is empty while the time series is not
C21_Witness ==
  /\ Len(data) > 0
  /\ groupByColumn = ""
  /\ valueColumn # ""
  /\ chartData = <<>>
  /\ Len(timeSeriesData) > 0

\* C21 witness of the other cases: a filter left no rows after both series had
\* entries
C21_WitnessNoRows ==
  /\ Len(data) = 0
  /\ groupByColumn # ""
  /\ valueColumn # ""
  /\ DateColumn(columns) # NoColumn
  /\ chartData = <<>>
  /\ timeSeriesData = <<>>

\* The cell of the column is missing or null in every row
AllNullish(rows, columnName) ==
  \A i \in 1..Len(rows) : Cell(rows[i], columnName).t \in {"null", "undefined"}

\* C22: the KPI computation is null-safe: over an empty filtered row set, or with
\* a source column that is missing or null in every row, it does not throw and
\* gives totals of zero or an absent summary.
C22_KpiNullSafe ==
  LET roles   == DetectKpiColumns(columns)
      summary == kpiData.summary
      onEmpty == CalculateKpis(<<>>, roles)
  IN  /\ Len(filteredData) = 0 => kpiData = NoKpi
      /\ \A field \in DOMAIN onEmpty : onEmpty[field] \in {Num(0), Undefined}
      /\ kpiData.calculated =>
           /\ kpiData.rows = filteredData
           /\ \A field \in DOMAIN summary : summary[field].t \in {"number", "undefined"}
           /\ AllNullish(filteredData, roles.revenue.name)
                => summary.totalRevenue \in {Num(0), Undefined}
           /\ AllNullish(filteredData, roles.quantity.name)
                => /\ summary.totalQuantity \in {Num(0), Undefined}
                   /\ summary.averageQuantity \in {Num(0), Undefined}
           /\ AllNullish(filteredData, roles.category.name)
                => summary.categoryCount \in {Num(0), Undefined}
           /\ AllNullish(filteredData, roles.date.name)
                => summary.earliest = Undefined /\ summary.latest = Undefined

\* C22 witness: a filter left no row of a loaded dataset and the summary is absent
C22_Witness ==
  /\ Len(dataset.rows) > 0
  /\ Len(filters) > 0
  /\ Len(filteredData) = 0
  /\ kpiData = NoKpi

\* C22 witness of the other case: KPIs calculated over rows that lack the column
\* detected as revenue, the total being zero
C22_WitnessMissingColumn ==
  /\ kpiData.calculated
  /\ DetectKpiColumns(columns).revenue # NoColumn
  /\ AllNullish(filteredData, DetectKpiColumns(columns).revenue.name)
  /\ kpiData.summary.totalRevenue = Num(0)
  /\ kpiData.summary.categoryCount = Num(0)

\* The positions of the columns of one of the types whose name, lower-cased in
\* lower, contains one of the hints
Candidates(lower, types, hints) ==
  { i \in 1..Len(columns) :
      columns[i].type \in types /\ \E hint \in hints : includes(lower[i], hint) }

\* The name of the column at the least of the positions, "" when there is none
NameOfFirst(positions) ==
  IF positions = {} THEN ""
  ELSE columns[CHOOSE i \in positions : \A j \in positions : i <= j].name

AllTypes == { columns[i].type : i \in 1..Len(columns) }

\* What each report preset needs: the role it groups by and the role it sums
PresetRoles ==
  [value \in PresetValues \ {"custom"} |->
     CASE value = "sales-by-customer" -> [groupBy |-> CustomerHints, valueCol |-> AmountHints]
       [] value = "qty-by-customer"   -> [groupBy |-> CustomerHints, valueCol |-> QuantityHints]
       [] value = "sales-by-product"  -> [groupBy |-> ProductHints, valueCol |-> AmountHints]
       [] value = "qty-by-product"    -> [groupBy |-> ProductHints, valueCol |-> QuantityHints]
       [] value = "sales-by-category" -> [groupBy |-> CategoryHints, valueCol |-> AmountHints]]

\* The presets offered are those whose two roles have a column, each with the
\* columns of its roles, and a chosen preset has put its columns in the selectors;
\* groupTypes and valueTypes are the column types a role may pick from
PresetsFollowRoles(groupTypes, valueTypes) ==
  /\ LET lower == [i \in 1..Len(columns) |-> toLowerCase(NameChars(columns[i].name))] IN
     \A value \in PresetValues \ {"custom"} :
       LET groupName == NameOfFirst(Candidates(lower, groupTypes, PresetRoles[value].groupBy))
           valueName == NameOfFirst(Candidates(lower, valueTypes, PresetRoles[value].valueCol))
           offered   == { i \in 1..Len(reportPresets) : reportPresets[i].value = value }
       IN  /\ (offered # {}) <=> (groupName # "" /\ valueName # "")
           /\ \A i \in offered :
                reportPresets[i].groupBy = groupName /\ reportPresets[i].valueCol = valueName
           /\ reportType = value => groupByColumn = groupName /\ valueColumn = valueName
  /\ reportPresets[1].value = "custom"
  /\ DateColumn(columns).name = NameOfFirst({ i \in 1..Len(columns) : columns[i].type = "date" })

\* C23: role detection picks, for each role, the first column in declared order
\* whose lower-cased name contains one of the hints of the role (the first column
\* typed date for the date role); a role without a match is absent and every
\* report preset that needs it is not offered.
C23_FirstColumnWithHint == PresetsFollowRoles(AllTypes, AllTypes)

\* C23 as amended: the customer, product and category roles pick among the
\* columns typed category or text, the amount and quantity roles among the
\* columns typed number.
C23_FirstColumnOfTypeWithHint == PresetsFollowRoles({"category", "text"}, {"number"})

\* C23 witness: 'sales-by-product' was chosen where a number column named ITEM is
\* declared before the text column Item, and no quantity preset is offered although
\* a text column is named Qty
C23_Witness ==
  /\ reportType = "sales-by-product"
  /\ groupByColumn = "Item"
  /\ valueColumn = "Sales"
  /\ columns[1].name = "Qty"
  /\ \A i \in 1..Len(reportPresets) : reportPresets[i].value # "qty-by-product"

\* C24: no column is selected for two roles at once: the customer, product and
\* category columns are different columns, and so are the amount and quantity
\* columns.
C24_OneRolePerColumn ==
  LET customer == CustomerCol(columns)
      product  == ProductCol(columns)
      category == CategoryCol(columns)
      amount   == AmountCol(columns)
      quantity == QuantityCol(columns)
  IN  /\ customer # NoColumn => customer # product /\ customer # category
      /\ product # NoColumn => product # category
      /\ amount # NoColumn => amount # quantity

\* C25: the bar and pie charts titled 'Top 10' show the 10 groups with the largest
\* summed values among all groups of the filtered rows, all groups when there are
\* fewer than 10, and never more than 10 entries.
C25_TopTenLargest ==
  LET groups == AggregateByColumn(data, groupByColumn, valueColumn)
      shown  == { chartData[i] : i \in 1..Len(chartData) }
      all    == { groups[i] : i \in 1..Len(groups) }
  IN  /\ Len(chartData) <= TopN
      /\ Len(chartData) = IF Len(groups) < TopN THEN Len(groups) ELSE TopN
      /\ shown \subseteq all
      /\ \A left \in all \ shown : \A kept \in shown : kept.value >= left.value

\* C25, the part that holds: at most 10 entries, and all groups when there are no
\* more than 10
C25_AtMostTen ==
  LET groups == AggregateByColumn(data, groupByColumn, valueColumn) IN
    /\ Len(chartData) <= TopN
    /\ Len(groups) <= TopN => chartData = groups

\* The days of the group keys of a series that are dates are in non-decreasing
\* order
Chronological(series) ==
  \A i, j \in 1..Len(series) :
    (i < j /\ Instant(series[i]).t = "number" /\ Instant(series[j]).t = "number")
      => Instant(series[i]).n <= Instant(series[j]).n

\* C26: the time series is the sum aggregation by the date column re-sorted
\* chronologically: its entries are in non-decreasing order of the date of their
\* group key, there is one entry per entry of the aggregation, and the values are
\* those of the aggregation.
C26_TimeSeriesChronological ==
  (DateColumn(columns) # NoColumn /\ valueColumn # "" /\ Len(data) > 0) =>
    \E q \in Reorderings(AggregateByColumn(data, DateColumn(columns).name, valueColumn)) :
      /\ Chronological(q)
      /\ timeSeriesData =
           [i \in 1..Len(q) |->
              [name |-> DateLabel(q[i].name, timeZoneOffset), value |-> q[i].value]]

\* C26, the part that holds: one entry per entry of the aggregation with its value
\* and the label of its key, in some order
C26_EntriesAndValuesKept ==
  (DateColumn(columns) # NoColumn /\ valueColumn # "" /\ Len(data) > 0) =>
    \E q \in Reorderings(AggregateByColumn(data, DateColumn(columns).name, valueColumn)) :
      /\ (\A i \in 1..Len(q) : Instant(q[i]).t = "number") => Chronological(q)
      /\ timeSeriesData =
           [i \in 1..Len(q) |->
              [name |-> DateLabel(q[i].name, timeZoneOffset), value |-> q[i].value]]

C27_RequestForRowChosen ==
  lastRequest.method # "none" => lastRequest.rowId = lastRequest.shown

\* C28: once every dataset fetch has completed, the dataset held is the response
\* to the request issued last, whatever the order in which the responses arrived.
C28_LastIssuedWins ==
  (inFlight = {} /\ Len(answers) > 0 /\ answers[Len(answers)].success)
    => dataset = answers[Len(answers)].dataset

\* C30: on the list page a dataset leaves the displayed list only when the server
\* has reported the success of its delete, a failed delete leaves the list as it
\* is, the deleting flag is set exactly while a delete request is unfinished, and
\* the confirmation dialog is not dismissed while a delete is in flight.
C30_DeleteOnList ==
  /\ [](listDeleting <=> listDeleteRequest # NoListRequest)
  /\ [][ /\ (~listLoading /\ datasets' # datasets) =>
              /\ listDeleteRequest.response = "success"
              /\ datasets' = WithoutDataset(datasets, listDeleteRequest.id)
         /\ (listDeleteRequest.response \in {"refused", "threw"}
               /\ listDeleteRequest' = NoListRequest) =>
              datasets' = datasets /\ ~listDeleting'
         /\ (listDeleteRequest.response = "success" /\ listDeleteRequest' = NoListRequest) =>
              ~listDeleting'
         /\ (listDeleting /\ listDeleting') => listDeleteModal' = listDeleteModal ]_vars

\* C30 witness: a delete threw although the server had removed the dataset: the
\* request is finished, the flag is reset, the list still shows the dataset and
\* the dialog is still open
C30_Witness ==
  /\ ~listLoading
  /\ ~listDeleting
  /\ listDeleteRequest = NoListRequest
  /\ listDeleteModal.open
  /\ \E i \in 1..Len(datasets) : datasets[i] = listDeleteModal.dataset
  /\ \A i \in 1..Len(serverDatasets) : serverDatasets[i] # listDeleteModal.dataset

\* C30 witness of the success: the server removed the dataset and its answer is on
\* the way, the list still shows the dataset
C30_WitnessSuccess ==
  /\ listDeleting
  /\ listDeleteRequest.response = "success"
  /\ listDeleteModal.open
  /\ \E i \in 1..Len(datasets) : datasets[i] = listDeleteRequest.id
  /\ \A i \in 1..Len(serverDatasets) : serverDatasets[i] # listDeleteRequest.id

=============================================================================
